---- MODULE Spec2Model ----
(***************************************************************************)
(* Verification model of Rob650/mention-webhook.                           *)
(*                                                                         *)
(* Part I   research poller   src/polling.js lines 1-516, with the         *)
(*          conversation memory of src/unnamed/part_001.                   *)
(* Part II  webhook handler v2   src/unnamed/part_010, with src/src/db.js  *)
(*          and the filters of src/unnamed/part_006.                       *)
(* Part III poller with tracking under /tmp   src/PRODUCTION-READY.md      *)
(*          lines 398-532.                                                 *)
(* Part IV  pure steps applied to bounded inputs: the mention filter       *)
(*          (part_006), the reply text of the research and strict pollers  *)
(*          (polling.js 377-461, 781-818) over run-length encoded texts,   *)
(*          the research stage (polling.js 187-365), identifyTopics and    *)
(*          buildContextKnowledge (src/src/stages/stage2-full-research.js),*)
(*          findThreadOrigin (src/src/stages/stage1-thread-origin.js),     *)
(*          the follow-up decision (part_001 64-89, polling.js 291), the   *)
(*          loop body of the first research poller (PRODUCTION-READY.md    *)
(*          lines 651-888) and analyzeThreadEvolution (part_004 43-88).    *)
(* Part V   stream handler   src/stream.js lines 106-150 and 219-229, and  *)
(*          the stream connection, src/stream.js lines 204-262.            *)
(* Part VI  database poller   src/polling-server.js lines 98-258.          *)
(*                                                                         *)
(* Every await of the JavaScript code is a point where the handler is      *)
(* suspended; the code between two awaits runs to completion and is one    *)
(* action.  A poll invocation (or a webhook request) in progress occupies  *)
(* a slot; its local variables are the fields of the slot's record.        *)
(*                                                                         *)
(* Assumptions.  fs.writeFileSync (polling.js:66, 86, part_001:56) throws  *)
(* in SpecDisk and SpecDiskRestart only: the catch logs the error, and the *)
(* file is as it was (the open failed) or holds a part of the text (the    *)
(* write failed after the open emptied the file); in the other             *)
(* specifications every write succeeds.  At a start, fs.readFileSync       *)
(* succeeds and JSON.parse throws on a part of a text.                     *)
(* A rate-limit answer of the platform (polling.js:490-495) is             *)
(* an outcome of SpecBackoff only: in the other specifications a failed    *)
(* fetch is an error of another kind.  The statistics counter mentionCount *)
(* of stream.js and polling-server.js is not modelled.  The stream handler *)
(* takes the delivery of tweets as given: the connection that delivers     *)
(* them is modelled by its own actions (SpecConnection).  A crash of the   *)
(* process (SpecCrash) falls between a post and the writes that record it, *)
(* once in a behaviour.                                                    *)
(***************************************************************************)
EXTENDS Integers, Sequences, FiniteSets, TLC

\* ------------------------------------------------------------------ bounds
\* Number of mentions the platform ever holds (ids 1..MaxMention).
MaxMention == 3
\* Cap of the rate-limit error counter (the code's counter is unbounded).
MaxErrorCount == 4
\* Cap of the number of replies to one mention the platform records.
MaxReplies == 4
\* The burst scenario: one mention, every slot may hold a poll in progress.
BurstMentions == 1
\* The restart scenario: number of mentions the platform ever holds; one poll
\* in progress at a time.
RestartMentions == 2
\* The retry scenario: number of mentions the platform ever holds; one poll
\* in progress at a time.
RetryMentions == 2
\* Webhook: ticks of the clock per day, last tick, number of deliveries.
TicksPerDay == 2
MaxTime == 5
MaxDeliveries == 3

\* Slots for poll invocations, and how many may be in progress at the same
\* time in the main scenario.
Polls == {1, 2, 3, 4}
MainPolls == {1, 2}
Authors == {"a1", "a2"}
\* Values of a mention's conversation_id field (0 would stand for an absent
\* field; the search asks for the field and the platform always sends it).
ConversationIds == {1}

\* Number of replies the stream handler ever posts.
MaxStreamReplies == 22
\* Number of tweets the platform ever holds for the DB poller, and of replies
\* the DB poller ever posts.
DbMaxTweets == 2
DbMaxReplies == 3
\* Number of streams open at the same time, and of connections being opened
\* or scheduled when a stream raises an event.
MaxLiveStreams == 2
MaxPending == 2

\* Number of distinct handles and of distinct capitalized phrases of a thread.
MaxHandles == 11
MaxTerms == 1
MaxThread == 3
MaxCreatedAt == 4

\* ------------------------------------------------------- program constants
\* polling.js:174  `if (authorReplyCount >= 3)`
MaxRepliesPerPair == 3
\* polling.js:112  `errorCount > 3`
BackoffAfterErrors == 3

\* ------------------------------------------------------------------- state
VARIABLES
  mentions,            \* platform: the mentions that exist, id = index
  replies,             \* platform: replies successfully posted, per mention id
  lastMentionId,       \* polling.js:34 (0 = null)
  replyTracking,       \* polling.js:39, key <<convId, authorId>>, 0 = absent
  repliedMentions,     \* polling.js:43
  conversationMemory,  \* part_001:15, key <<convId, authorId>>, reply_count, 0 = absent
  replyCount,          \* polling.js:33
  errorCount,          \* polling.js:106
  errorAge,            \* Date.now() - lastErrorTime compared with 60000: "lt", "eq", "gt"
  fileTracking,        \* REPLIED_FILE: the object whose text the file holds
  fileMentions,        \* MENTIONS_FILE: the set whose text the file holds
  fileMemory,          \* CONVO_MEMORY_FILE: the entries of its complete lines
  saveErrors,          \* console.error of polling.js:68, 88 and part_001:58: the
                       \* writes of the latest recorded reply that threw
  memoryKeys,          \* part_001:15  the keys of the Map conversationMemory, in
                       \* the order of their insertion
  fileMemoryKeys,      \* CONVO_MEMORY_FILE: the keys of its complete lines, in order
  fileTruncated,       \* the files that hold only a part of the text of their
                       \* latest write (the rest of the text was not written)
  poll,                \* per slot: the locals of the poll invocation in progress
                       \* (postFailed is history: a post of this invocation failed)
  timerArmed,          \* setInterval(poll, 30000) has been called
  cyclePosts,          \* history: replies posted by the latest invocation of each slot
  cycleLeft,           \* history: the eligible mentions its batch still held when it posted
  bootMentions,        \* history: repliedMentions as loaded at the latest restart
  limits,              \* scenario: [polls, mentions, writes], fixed by the initial
                       \* state; writes holds the outcomes of fs.writeFileSync
  awaitingRetry        \* history (polls that do not overlap): mentions whose post
                       \* failed and that no poll has begun to process since

pollerVars == <<mentions, replies, lastMentionId, replyTracking, repliedMentions,
                conversationMemory, replyCount, errorCount, errorAge,
                fileTracking, fileMentions, fileMemory, saveErrors, memoryKeys, fileMemoryKeys, fileTruncated, poll, timerArmed,
                cyclePosts, cycleLeft, bootMentions, limits, awaitingRetry>>

VARIABLES
  wNow,          \* Date.now(), in ticks of 1/TicksPerDay day
  dbRows,        \* db.js:22-29  rows of table mentions: <<user_id, time of insertion>>
  req,           \* per slot: the webhook request being handled
  mentionCount,  \* part_010:47
  wReplyCount,   \* part_010:48
  deliveries,    \* history: number of POSTs received so far
  prevPost,      \* history: per author, time of the reply before the latest (-1 = none)
  lastPost       \* history: per author, time of the latest reply (-1 = none)

webhookVars == <<wNow, dbRows, req, mentionCount, wReplyCount, deliveries,
                 prevPost, lastPost>>

VARIABLES
  tmpMentions,    \* platform: the mentions that exist, id = index
  tmpReplies,     \* platform: replies successfully posted, per mention id
  tmpTracking,    \* PRODUCTION-READY.md:365 replyTracking, 0 = absent
  tmpFile,        \* contents of /tmp/replied-tracking.json
  tmpReplyCount,  \* PRODUCTION-READY.md:360 the module's replyCount
  tmpPoll,        \* per slot: the locals of the poll invocation in progress
  tmpTimer,       \* setInterval(poll, 30000) has been called
  tmpCyclePosts   \* history: replies posted by the latest invocation of each slot

tmpVars == <<tmpMentions, tmpReplies, tmpTracking, tmpFile, tmpReplyCount,
             tmpPoll, tmpTimer, tmpCyclePosts>>

VARIABLES
  input,   \* the argument of the function under study ("none" elsewhere)
  output   \* <<its result>> (<<>> before the call)

pureVars == <<input, output>>

VARIABLES
  running,          \* scenario: which of stream.js ("stream") and
                    \* polling-server.js ("dbPoller") the process runs
  streamReplyCount, \* stream.js:50 replyCount
  streamHandler,    \* per slot: the handleMention call in progress
  dbTweets,         \* platform: the tweets matching the query, id = index
  lastProcessedTweetId, \* polling-server.js:45 (0 = null)
  dbReplyCount,     \* polling-server.js:47 replyCount
  dbPoll,           \* per slot: the locals of the pollForMentions call in progress
  dbTimer,          \* polling-server.js:258 setInterval has been called
  reconnectAttempts, \* stream.js:52
  reconnectTimers,  \* pending setTimeout(startTwitterStream, RECONNECT_DELAY)
  connecting,       \* calls of startTwitterStream suspended in searchStream
  liveStreams,      \* open streams whose listeners are registered
  endingStreams     \* streams that raised 'error' and have 'end' still to raise

connectionVars == <<reconnectAttempts, reconnectTimers, connecting,
                    liveStreams, endingStreams>>
streamVars == <<streamReplyCount, streamHandler, connectionVars>>
dbPollerVars == <<dbTweets, lastProcessedTweetId, dbReplyCount, dbPoll, dbTimer>>
serverVars == <<running, streamVars, dbPollerVars>>

\* The state of the other programs of the repository modelled below.
otherVars == <<tmpVars, pureVars, serverVars>>

vars == <<pollerVars, webhookVars, otherVars>>

MentionIds == 1..MaxMention
\* A conversation id is the id of a tweet: the field's value, or the mention's own id.
Keys == (MentionIds \cup ConversationIds) \X Authors

\* ---------------------------------------------------------------- helpers
\* polling.js:155  const convId = mention.conversation_id || mention.id
ConvIdOf(id) == IF mentions[id].conv = 0 THEN id ELSE mentions[id].conv

\* polling.js:158  const trackingKey = `${convId}:${authorId}`
TrackingKey(id) == <<ConvIdOf(id), mentions[id].author>>

\* The recent-search result: every mention newer than since_id, newest first.
SearchResult(since, newest) == [k \in 1..(newest - since) |-> newest - k + 1]

\* polling.js:161  repliedMentions.has(mentionId)
AlreadyRepliedNoCheck(rm, id) == FALSE
AlreadyReplied(rm, id) == id \in rm

\* polling.js:173-174  (replyTracking[trackingKey] || 0) >= 3
PairCapReached(rt, id) == rt[TrackingKey(id)] >= MaxRepliesPerPair

\* polling.js:160-177  the three skip tests of one loop iteration
Skipped(rm, rt, seen, id) ==
  \/ AlreadyReplied(rm, id)
  \/ id \in seen
  \/ PairCapReached(rt, id)

\* polling.js:153  if (repliedThisCycle > 0) break
NoHardStop(repliedThisCycle) == FALSE
HardStop(repliedThisCycle) == repliedThisCycle > 0

\* polling.js:151-179  index of the first mention at or after i that is not skipped
RECURSIVE FirstEligible(_, _, _, _, _)
FirstEligible(batch, i, seen, rm, rt) ==
  IF i > Len(batch) THEN i
  ELSE IF Skipped(rm, rt, seen, batch[i]) THEN FirstEligible(batch, i + 1, seen, rm, rt)
  ELSE i

IdlePoll == [pc |-> "idle", since |-> 0, batch |-> <<>>, i |-> 0,
             repliedThisCycle |-> 0, mentionsSeen |-> {}, initial |-> FALSE,
             postFailed |-> FALSE]

\* polling.js:151-181  the loop from index i up to the next await (the research
\* stage of the first mention that is not skipped) or to the end of poll.
LoopFrom(pr, i, rm, rt) ==
  LET j == FirstEligible(pr.batch, i, pr.mentionsSeen, rm, rt) IN
  IF i > Len(pr.batch) \/ HardStop(pr.repliedThisCycle) \/ j > Len(pr.batch)
  THEN IdlePoll
  ELSE [pr EXCEPT !.pc = "research", !.i = j,
                  !.mentionsSeen = @ \cup {pr.batch[j]}]

Current(pr) == pr.batch[pr.i]

\* History, recorded in the scenarios whose polls do not overlap: a mention
\* whose post failed awaits a retry until a poll begins to process it.
Sequential == Cardinality(limits.polls) = 1
RetryAwaited(ar, id) == IF Sequential THEN ar \cup {id} ELSE ar
RetryBegun(ar, next) ==
  IF Sequential /\ next.pc = "research" THEN ar \ {Current(next)} ELSE ar

\* polling.js:482-488  the two catch blocks of the loop body end the
\* iteration: the loop goes on with the next mention.
StopAfterFailure(pr) == IdlePoll
AfterFailure(pr) == LoopFrom(pr, pr.i + 1, repliedMentions, replyTracking)

\* polling.js:505-509  the interval timer is created when the first poll returns
TimerAfter(pr, next) == timerArmed \/ (pr.initial /\ next.pc = "idle")

\* An error counter that no poll invocation resets.
ErrorCountKept == errorCount

\* polling.js:111-118  the backoff test and the reset of the error counter
BackingOff == errorCount > BackoffAfterErrors /\ errorAge = "lt"
ErrorCountAtStart == IF errorAge = "gt" THEN 0 ELSE errorCount

\* ---------------------------------------------------------------- webhook
\* Webhook requests that can be in progress at the same time.
Reqs == {1, 2}

\* Character codes of the separators of the two timestamp formats.
\* db.js:27  CURRENT_TIMESTAMP gives 'YYYY-MM-DD HH:MM:SS'
SpaceChar == 32
\* db.js:52  toISOString() gives 'YYYY-MM-DDTHH:MM:SS.sssZ'
TeeChar == 84
DotChar == 46

\* db.js:27  the text SQLite stores for a row inserted at time t
SqlTimestamp(t) == <<t \div TicksPerDay, SpaceChar, t % TicksPerDay>>

\* db.js:52  new Date(...).toISOString()
IsoString(t) == <<t \div TicksPerDay, TeeChar, t % TicksPerDay, DotChar>>

\* db.js:55  `timestamp > ?` on two texts: SQLite compares them byte by byte
RECURSIVE TextGreater(_, _)
TextGreater(x, y) ==
  IF Len(x) = 0 THEN FALSE
  ELSE IF Len(y) = 0 THEN TRUE
  ELSE IF Head(x) # Head(y) THEN Head(x) > Head(y)
  ELSE TextGreater(Tail(x), Tail(y))

\* db.js:50-62  hasRecentReply: a row of the user whose timestamp text is
\* greater than the ISO text of now minus 24 hours
HasRecentReply(rows, userId, now) ==
  \E row \in rows :
    /\ row[1] = userId
    /\ TextGreater(SqlTimestamp(row[2]), IsoString(now - TicksPerDay))

\* part_006:8-31  shouldReplyTo
ShouldReplyTo(mention) ==
  IF ~mention.verified THEN FALSE
  ELSE IF ~mention.mentionsBot THEN FALSE
  ELSE IF mention.startsRT THEN FALSE
  ELSE IF mention.inReplyTo # "none" /\ mention.inReplyTo # "graisonbot" THEN FALSE
  ELSE TRUE

\* The mention events a delivery can carry.
MentionEvents ==
  [user : Authors, verified : BOOLEAN, mentionsBot : BOOLEAN, startsRT : BOOLEAN,
   inReplyTo : {"none", "graisonbot", "other"}]

\* A mention text, as a sequence of pieces.
Pieces == {"RT @", "rt @", "@graisonbot", "@GRAISONBOT", "gm"}
MaxPieces == 2
Texts == UNION {[1..n -> Pieces] : n \in 0..MaxPieces}

\* part_006:15  String.prototype.toLowerCase
CaseKept(piece) == piece
ToLowerCase(piece) ==
  CASE piece = "RT @" -> "rt @"
    [] piece = "@GRAISONBOT" -> "@graisonbot"
    [] OTHER -> piece

\* part_006:15  mention.text.toLowerCase().includes('@graisonbot')
IncludesBot(text) == \E i \in 1..Len(text) : ToLowerCase(text[i]) = "@graisonbot"

\* part_006:20  mention.text.startsWith('RT @')
StartsWithRT(text) == Len(text) > 0 /\ text[1] = "RT @"

\* The tweet_create_events a delivery can carry, with their text.
FilterInputs ==
  [user : {"a1"}, verified : BOOLEAN, text : Texts,
   inReplyTo : {"none", "graisonbot", "other"}]

\* part_006:8-31  the fields shouldReplyTo reads of the event
FilterView(event) ==
  [user |-> event.user, verified |-> event.verified,
   mentionsBot |-> IncludesBot(event.text), startsRT |-> StartsWithRT(event.text),
   inReplyTo |-> event.inReplyTo]

\* calledAt is the Date.now() that hasRecentReply read when it was called
\* (db.js:52), kept while the query is pending and 0 otherwise.
IdleReq ==
  [pc |-> "idle", user |-> "none", responses |-> 0, status |-> 0, calledAt |-> 0]

\* part_010:121, 128, 146, 155, 165, 186  res.json / res.sendStatus(200)
Responded(rq) == [rq EXCEPT !.pc = "done", !.responses = @ + 1, !.status = 200]

\* part_010:187-190  the catch of the handler: "Always respond 200 to Twitter"
CaughtWithError(rq) == [rq EXCEPT !.pc = "done", !.responses = @ + 1, !.status = 500]
Caught(rq) == [rq EXCEPT !.pc = "done", !.responses = @ + 1, !.status = 200]

WebhookInit ==
  /\ wNow = TicksPerDay
  /\ dbRows = {}
  /\ req = [r \in Reqs |-> IdleReq]
  /\ mentionCount = 0
  /\ wReplyCount = 0
  /\ deliveries = 0
  /\ prevPost = [a \in Authors |-> -1]
  /\ lastPost = [a \in Authors |-> -1]

\* Time passes.
WebhookTick ==
  /\ wNow < MaxTime
  /\ wNow' = wNow + 1
  /\ UNCHANGED <<pollerVars, otherVars>>
  /\ UNCHANGED <<dbRows, req, mentionCount, wReplyCount, deliveries, prevPost, lastPost>>

FreeSlot(r) ==
  /\ req[r].pc \in {"idle", "done"}
  /\ \A q \in Reqs : q < r => req[q].pc \notin {"idle", "done"}
  /\ deliveries < MaxDeliveries
  /\ deliveries' = deliveries + 1

\* part_010:118-123  a CRC challenge: answered, or generateCRCToken throws
ReceiveCrc(r) ==
  /\ FreeSlot(r)
  /\ \E throws \in BOOLEAN :
       req' = [req EXCEPT ![r] = IF throws THEN Caught(IdleReq) ELSE Responded(IdleReq)]
  /\ UNCHANGED <<pollerVars, otherVars>>
  /\ UNCHANGED <<wNow, dbRows, mentionCount, wReplyCount, prevPost, lastPost>>

\* part_010:125-129  a delivery without tweet_create_events
ReceiveEmpty(r) ==
  /\ FreeSlot(r)
  /\ req' = [req EXCEPT ![r] = Responded(IdleReq)]
  /\ UNCHANGED <<pollerVars, otherVars>>
  /\ UNCHANGED <<wNow, dbRows, mentionCount, wReplyCount, prevPost, lastPost>>

\* part_010:131-139  an event without a user object: logger.mention's
\* arguments throw a TypeError, after mentionCount++
ReceiveMalformed(r) ==
  /\ FreeSlot(r)
  /\ mentionCount' = mentionCount + 1
  /\ req' = [req EXCEPT ![r] = Caught(IdleReq)]
  /\ UNCHANGED <<pollerVars, otherVars>>
  /\ UNCHANGED <<wNow, dbRows, wReplyCount, prevPost, lastPost>>

\* part_010:131-150  a mention: counted, filtered, then hasRecentReply is
\* called: it computes oneDayAgo from Date.now() (db.js:52), hands the query
\* to the database, and the handler is suspended
ReceiveMention(r) ==
  /\ FreeSlot(r)
  /\ mentionCount' = mentionCount + 1
  /\ \E mention \in MentionEvents :
       req' = [req EXCEPT ![r] =
                 IF ShouldReplyTo(mention)
                 THEN [IdleReq EXCEPT !.pc = "dedup", !.user = mention.user,
                                      !.calledAt = wNow]
                 ELSE Responded(IdleReq)]
  /\ UNCHANGED <<pollerVars, otherVars>>
  /\ UNCHANGED <<wNow, dbRows, wReplyCount, prevPost, lastPost>>

\* part_010:150-161  the query of hasRecentReply is answered: the rows are
\* those of the moment of the answer, the bound is the one computed at the call
DedupResolves(r) ==
  /\ req[r].pc = "dedup"
  /\ req' = [req EXCEPT ![r] =
               IF HasRecentReply(dbRows, req[r].user, req[r].calledAt)
               THEN Responded([req[r] EXCEPT !.calledAt = 0])
               ELSE [req[r] EXCEPT !.pc = "generate", !.calledAt = 0]]
  /\ UNCHANGED <<pollerVars, otherVars>>
  /\ UNCHANGED <<wNow, dbRows, mentionCount, wReplyCount, deliveries, prevPost, lastPost>>

\* db.js:57-59  the query fails: err is ignored, row is undefined, resolve(false)
DedupQueryFails(r) ==
  /\ req[r].pc = "dedup"
  /\ req' = [req EXCEPT ![r] = [req[r] EXCEPT !.pc = "generate", !.calledAt = 0]]
  /\ UNCHANGED <<pollerVars, otherVars>>
  /\ UNCHANGED <<wNow, dbRows, mentionCount, wReplyCount, deliveries, prevPost, lastPost>>

\* part_010:161-172 and 197-236  generateReply returns a text
GenerateReturnsText(r) ==
  /\ req[r].pc = "generate"
  /\ req' = [req EXCEPT ![r].pc = "post"]
  /\ UNCHANGED <<pollerVars, otherVars>>
  /\ UNCHANGED <<wNow, dbRows, mentionCount, wReplyCount, deliveries, prevPost, lastPost>>

\* part_010:163-166 and 227-235  generateReply returns null (no text, or the call threw)
GenerateReturnsNull(r) ==
  /\ req[r].pc = "generate"
  /\ req' = [req EXCEPT ![r] = Responded(req[r])]
  /\ UNCHANGED <<pollerVars, otherVars>>
  /\ UNCHANGED <<wNow, dbRows, mentionCount, wReplyCount, deliveries, prevPost, lastPost>>

\* part_010:172-176 and 242-253  postReply returns the id of the reply
ReplyPosted(r) ==
  /\ req[r].pc = "post"
  /\ wReplyCount' = wReplyCount + 1
  /\ prevPost' = [prevPost EXCEPT ![req[r].user] = lastPost[req[r].user]]
  /\ lastPost' = [lastPost EXCEPT ![req[r].user] = wNow]
  /\ req' = [req EXCEPT ![r].pc = "insert"]
  /\ UNCHANGED <<pollerVars, otherVars>>
  /\ UNCHANGED <<wNow, dbRows, mentionCount, deliveries>>

\* part_010:182-186 and 255-259  postReply returns null
ReplyNotPosted(r) ==
  /\ req[r].pc = "post"
  /\ req' = [req EXCEPT ![r] = Responded(req[r])]
  /\ UNCHANGED <<pollerVars, otherVars>>
  /\ UNCHANGED <<wNow, dbRows, mentionCount, wReplyCount, deliveries, prevPost, lastPost>>

\* part_010:176-186 and db.js:67-82  addReply resolves: the row exists
InsertResolves(r) ==
  /\ req[r].pc = "insert"
  /\ dbRows' = dbRows \cup {<<req[r].user, wNow>>}
  /\ req' = [req EXCEPT ![r] = Responded(req[r])]
  /\ UNCHANGED <<pollerVars, otherVars>>
  /\ UNCHANGED <<wNow, mentionCount, wReplyCount, deliveries, prevPost, lastPost>>

\* db.js:73-75 and part_010:187-190  addReply rejects: the handler's catch answers
InsertRejects(r) ==
  /\ req[r].pc = "insert"
  /\ req' = [req EXCEPT ![r] = Caught(req[r])]
  /\ UNCHANGED <<pollerVars, otherVars>>
  /\ UNCHANGED <<wNow, dbRows, mentionCount, wReplyCount, deliveries, prevPost, lastPost>>

\* The handler of POST /webhooks/twitter while the database answers.
WebhookStep(r) ==
  \/ ReceiveCrc(r)
  \/ ReceiveEmpty(r)
  \/ ReceiveMalformed(r)
  \/ ReceiveMention(r)
  \/ DedupResolves(r)
  \/ GenerateReturnsText(r)
  \/ GenerateReturnsNull(r)
  \/ ReplyPosted(r)
  \/ ReplyNotPosted(r)
  \/ InsertResolves(r)

WebhookReliableNext ==
  \/ WebhookTick
  \/ \E r \in Reqs : WebhookStep(r)

WebhookNext ==
  \/ WebhookReliableNext
  \/ \E r \in Reqs : DedupQueryFails(r)
  \/ \E r \in Reqs : InsertRejects(r)

\* ------------------------------------------------------------ reply texts
\* A text is a sequence of runs [c, n]: the character c repeated n times.
Chars == {"a", " ", "?", ".", "!"}
RunLengths == {1, 200, 201, 240}
MaxRuns == 3
Runs == [c : Chars, n : RunLengths]
GeneratedTexts == UNION {[1..k -> Runs] : k \in 0..MaxRuns}

\* polling.js:799  badPatterns
BadPatterns ==
  << <<"?">>,
     <<"i","'","d"," ","n","e","e","d">>,
     <<"n","e","e","d"," ","m","o","r","e">>,
     <<"w","h","a","t"," ","d","o">>,
     <<"c","o","u","l","d"," ","y","o","u">>,
     <<"c","a","n"," ","y","o","u"," ","s","h","a","r","e">>,
     <<"t","o"," ","b","e"," ","c","l","e","a","r">>,
     <<"j","u","s","t"," ","t","o"," ","c","l","a","r","i","f","y">> >>

\* Phrases an answer of the generator may hold: the patterns of more than one
\* character, and two of them with a capital first letter.
Phrases ==
  {BadPatterns[i] : i \in 2..Len(BadPatterns)} \cup
  { <<"T","o"," ","b","e"," ","c","l","e","a","r">>,
    <<"W","h","a","t"," ","d","o">> }

\* The characters of a phrase as runs of length 1.
PhraseRuns(p) == [i \in 1..Len(p) |-> [c |-> p[i], n |-> 1]]

\* The answers handed to the strict poller: the generated texts, and the
\* texts of up to MaxSegments segments, a segment being a run or a phrase.
MaxSegments == 2
Segments == {<<run>> : run \in Runs} \cup {PhraseRuns(p) : p \in Phrases}
RECURSIVE Flatten(_)
Flatten(segs) == IF segs = <<>> THEN <<>> ELSE Head(segs) \o Flatten(Tail(segs))
StrictTexts ==
  GeneratedTexts \cup
  {Flatten(segs) : segs \in UNION {[1..k -> Segments] : k \in 0..MaxSegments}}

\* String.prototype.toLowerCase, on the capital letters the texts hold
LowerChar(c) ==
  CASE c = "P" -> "p" [] c = "B" -> "b" [] c = "T" -> "t" [] c = "H" -> "h"
    [] c = "A" -> "a" [] c = "N" -> "n" [] c = "K" -> "k" [] c = "S" -> "s"
    [] c = "W" -> "w"
    [] OTHER -> c
LowerRuns(t) == [i \in 1..Len(t) |-> [t[i] EXCEPT !.c = LowerChar(@)]]

\* The same text with adjacent runs of one character joined.
RECURSIVE Joined(_)
Joined(t) ==
  IF Len(t) < 2 THEN t
  ELSE IF t[1].c = t[2].c
       THEN Joined(<<[c |-> t[1].c, n |-> t[1].n + t[2].n]>> \o SubSeq(t, 3, Len(t)))
       ELSE <<t[1]>> \o Joined(Tail(t))

\* The joined runs q occur in the joined runs t from run i on: the first and
\* the last run of q inside a run of t, the runs between them equal.
OccursAt(t, q, i) ==
  /\ i + Len(q) - 1 <= Len(t)
  /\ \A j \in 1..Len(q) :
       /\ t[i + j - 1].c = q[j].c
       /\ IF j = 1 \/ j = Len(q)
          THEN t[i + j - 1].n >= q[j].n
          ELSE t[i + j - 1].n = q[j].n

\* polling.js:800  replyText.toLowerCase().includes(pattern)
IncludesPattern(replyText, pattern) ==
  LET t == Joined(LowerRuns(replyText))
      q == Joined(PhraseRuns(pattern))
  IN \E i \in 1..Len(t) : OccursAt(t, q, i)

\* polling.js:427, 784  `replyText.length > 240`
MaxReplyLength == 240
\* polling.js:431, 788  `lastSpace > 200`
MinLastSpace == 200
\* polling.js:438  `truncated.substring(0, 237) + '...'`
HardCutLength == 237
\* polling.js:438  the three dots of '...'
EllipsisLength == 3

\* String.prototype.length
RECURSIVE Length(_)
Length(t) == IF t = <<>> THEN 0 ELSE Head(t).n + Length(Tail(t))

\* String.prototype.substring(0, k)
RECURSIVE Substring(_, _)
Substring(t, k) ==
  IF k <= 0 \/ t = <<>> THEN <<>>
  ELSE IF Head(t).n <= k THEN <<Head(t)>> \o Substring(Tail(t), k - Head(t).n)
  ELSE <<[c |-> Head(t).c, n |-> k]>>

\* String.prototype.lastIndexOf(ch), counted from offset: -1 when absent
RECURSIVE LastIndexFrom(_, _, _)
LastIndexFrom(t, ch, offset) ==
  IF t = <<>> THEN -1
  ELSE LET later == LastIndexFrom(Tail(t), ch, offset + Head(t).n) IN
       IF later # -1 THEN later
       ELSE IF Head(t).c = ch THEN offset + Head(t).n - 1
       ELSE -1

LastIndexOf(t, ch) == LastIndexFrom(t, ch, 0)

\* String.prototype.endsWith(ch)
EndsWith(t, ch) == t # <<>> /\ t[Len(t)].c = ch

\* String.prototype.includes(ch)
Includes(t, ch) == \E i \in 1..Len(t) : t[i].c = ch

\* replyText + ch repeated n times
Plus(t, ch, n) == t \o <<[c |-> ch, n |-> n]>>

\* The text with its leading and trailing spaces left in place.
NotTrimmed(t) == t

\* String.prototype.trim()
RECURSIVE TrimStart(_)
TrimStart(t) == IF t # <<>> /\ Head(t).c = " " THEN TrimStart(Tail(t)) ELSE t
RECURSIVE TrimEnd(_)
TrimEnd(t) ==
  IF t # <<>> /\ t[Len(t)].c = " " THEN TrimEnd(SubSeq(t, 1, Len(t) - 1)) ELSE t
Trim(t) == TrimEnd(TrimStart(t))

\* polling.js:791  replyText.replace(/[\.,;:]*$/, '')
RECURSIVE WithoutTrailingPunctuation(_)
WithoutTrailingPunctuation(t) ==
  IF t # <<>> /\ t[Len(t)].c = "."
  THEN WithoutTrailingPunctuation(SubSeq(t, 1, Len(t) - 1))
  ELSE t

\* The text with its question marks left in place.
QuestionMarksKept(t) == t

\* polling.js:452  replyText.replace(/\?/g, '.')
QuestionMarksReplaced(t) ==
  [i \in 1..Len(t) |-> IF t[i].c = "?" THEN [t[i] EXCEPT !.c = "."] ELSE t[i]]

\* polling.js:444  replyText.replace(/\?$/g, '.').replace(/\s+\?$/g, '.'): a
\* final '?' becomes '.'; the second replace then finds no final '?'
FinalQuestionMarkReplaced(t) ==
  IF EndsWith(t, "?")
  THEN (IF t[Len(t)].n = 1 THEN SubSeq(t, 1, Len(t) - 1)
        ELSE [t EXCEPT ![Len(t)].n = @ - 1]) \o <<[c |-> ".", n |-> 1]>>
  ELSE t

\* polling.js:426-440  the truncation of the research poller
NotTruncated(replyText) == replyText
ResearchTruncated(replyText) ==
  IF Length(replyText) > MaxReplyLength
  THEN LET truncated == Substring(replyText, MaxReplyLength)
           lastSpace == LastIndexOf(truncated, " ")
       IN IF lastSpace > MinLastSpace
          THEN LET cut == Substring(truncated, lastSpace)
               IN IF ~EndsWith(cut, ".") /\ ~EndsWith(cut, "!")
                  THEN Plus(cut, ".", 1)
                  ELSE cut
          ELSE Plus(Substring(truncated, HardCutLength), ".", EllipsisLength)
  ELSE replyText

\* polling.js:442-452  question marks are turned into full stops
ResearchStatement(replyText) ==
  QuestionMarksReplaced(IF Includes(replyText, "?")
                        THEN FinalQuestionMarkReplaced(replyText)
                        ELSE replyText)

\* polling.js:783-795  the truncation of the strict poller
StrictTruncated(replyText) ==
  IF Length(replyText) > MaxReplyLength
  THEN LET truncated == Substring(replyText, MaxReplyLength)
           lastSpace == LastIndexOf(truncated, " ")
       IN IF lastSpace > MinLastSpace
          THEN WithoutTrailingPunctuation(Substring(truncated, lastSpace))
          ELSE Substring(truncated, MaxReplyLength)
  ELSE replyText

\* polling.js:799-809  isQuestion: the strict poller rejects a text that
\* contains one of the bad patterns, in any case
StrictRejected(replyText) ==
  \E i \in 1..Len(BadPatterns) : IncludesPattern(replyText, BadPatterns[i])

\* polling.js:421  'Attention flows to execution. Always has.'
CannedReply ==
  <<[c |-> "a", n |-> 9], [c |-> " ", n |-> 1], [c |-> "a", n |-> 5],
    [c |-> " ", n |-> 1], [c |-> "a", n |-> 2], [c |-> " ", n |-> 1],
    [c |-> "a", n |-> 9], [c |-> ".", n |-> 1], [c |-> " ", n |-> 1],
    [c |-> "a", n |-> 6], [c |-> " ", n |-> 1], [c |-> "a", n |-> 3],
    [c |-> ".", n |-> 1]>>

\* polling.js:377-461  from the generator's answer to the text handed to
\* v2Client.post, canned being the fallback the context selects
ResearchReplyText(generated, canned) ==
  LET replyText == Trim(generated)
  IN [posted |-> TRUE,
      text |-> ResearchStatement(ResearchTruncated(
                 IF Length(replyText) = 0 THEN canned ELSE replyText))]

\* polling.js:781-818  from the generator's answer to the text handed to
\* v2Client.post, or to the `continue` of line 808
StrictReplyText(generated) ==
  LET replyText == StrictTruncated(Trim(generated))
  IN [posted |-> ~StrictRejected(replyText), text |-> replyText]

\* polling.js:401  `${ticker} shipping real execution-attention follo...`
TickerShipping ==
  <<[c |-> " ", n |-> 1], [c |-> "a", n |-> 8], [c |-> " ", n |-> 1],
    [c |-> "a", n |-> 4], [c |-> " ", n |-> 1], [c |-> "a", n |-> 19],
    [c |-> " ", n |-> 1], [c |-> "a", n |-> 7], [c |-> " ", n |-> 1],
    [c |-> "a", n |-> 9], [c |-> " ", n |-> 1], [c |-> "a", n |-> 3],
    [c |-> " ", n |-> 1], [c |-> "a", n |-> 4], [c |-> ".", n |-> 1],
    [c |-> " ", n |-> 1], [c |-> "a", n |-> 6], [c |-> " ", n |-> 1],
    [c |-> "a", n |-> 3], [c |-> " ", n |-> 1], [c |-> "a", n |-> 7],
    [c |-> ".", n |-> 1]>>

\* polling.js:403  `${ticker} attention curve is classic: early build...`
TickerGrowth ==
  <<[c |-> " ", n |-> 1], [c |-> "a", n |-> 9], [c |-> " ", n |-> 1],
    [c |-> "a", n |-> 5], [c |-> " ", n |-> 1], [c |-> "a", n |-> 2],
    [c |-> " ", n |-> 1], [c |-> "a", n |-> 8], [c |-> " ", n |-> 1],
    [c |-> "a", n |-> 5], [c |-> " ", n |-> 1], [c |-> "a", n |-> 9],
    [c |-> " ", n |-> 1], [c |-> "a", n |-> 4], [c |-> " ", n |-> 1],
    [c |-> "a", n |-> 8], [c |-> " ", n |-> 1], [c |-> "a", n |-> 9],
    [c |-> ".", n |-> 1], [c |-> " ", n |-> 1], [c |-> "a", n |-> 9],
    [c |-> " ", n |-> 1], [c |-> "a", n |-> 6], [c |-> " ", n |-> 1],
    [c |-> "a", n |-> 3], [c |-> " ", n |-> 1], [c |-> "a", n |-> 9],
    [c |-> ".", n |-> 1]>>

\* polling.js:405  `${ticker} gaining traction because execution beat...`
TickerTraction ==
  <<[c |-> " ", n |-> 1], [c |-> "a", n |-> 7], [c |-> " ", n |-> 1],
    [c |-> "a", n |-> 8], [c |-> " ", n |-> 1], [c |-> "a", n |-> 7],
    [c |-> " ", n |-> 1], [c |-> "a", n |-> 9], [c |-> " ", n |-> 1],
    [c |-> "a", n |-> 5], [c |-> " ", n |-> 1], [c |-> "a", n |-> 11],
    [c |-> ".", n |-> 1], [c |-> " ", n |-> 1], [c |-> "a", n |-> 6],
    [c |-> " ", n |-> 1], [c |-> "a", n |-> 3], [c |-> " ", n |-> 1],
    [c |-> "a", n |-> 3], [c |-> " ", n |-> 1], [c |-> "a", n |-> 6],
    [c |-> ".", n |-> 1]>>

\* polling.js:417  `Autonomous systems are shipping-that's w...`
CannedBots ==
  <<[c |-> "a", n |-> 10], [c |-> " ", n |-> 1], [c |-> "a", n |-> 7],
    [c |-> " ", n |-> 1], [c |-> "a", n |-> 3], [c |-> " ", n |-> 1],
    [c |-> "a", n |-> 15], [c |-> " ", n |-> 1], [c |-> "a", n |-> 5],
    [c |-> " ", n |-> 1], [c |-> "a", n |-> 3], [c |-> " ", n |-> 1],
    [c |-> "a", n |-> 4], [c |-> " ", n |-> 1], [c |-> "a", n |-> 6],
    [c |-> " ", n |-> 1], [c |-> "a", n |-> 5], [c |-> ".", n |-> 1]>>

\* polling.js:419  `Execution always wins the attention batt...`
CannedBuilding ==
  <<[c |-> "a", n |-> 9], [c |-> " ", n |-> 1], [c |-> "a", n |-> 6],
    [c |-> " ", n |-> 1], [c |-> "a", n |-> 4], [c |-> " ", n |-> 1],
    [c |-> "a", n |-> 3], [c |-> " ", n |-> 1], [c |-> "a", n |-> 9],
    [c |-> " ", n |-> 1], [c |-> "a", n |-> 6], [c |-> ".", n |-> 1],
    [c |-> " ", n |-> 1], [c |-> "a", n |-> 8], [c |-> " ", n |-> 1],
    [c |-> "a", n |-> 4], [c |-> ".", n |-> 1]>>

\* What polling.js:388-424 reads of the ticker context of line 258 (symbol:
\* the length of the first match of /\$[A-Z]+/, 0 without a match or with an
\* empty context; bullish, growth: lines 397-398) and of the conversation
\* summary (bots, building: lines 413-414).
SymbolLengths == {2, 240}
FallbackContexts ==
  [symbol : {0} \cup SymbolLengths, bullish : BOOLEAN, growth : BOOLEAN,
   bots : BOOLEAN, building : BOOLEAN]

\* polling.js:388-424  the text that replaces an empty reply text
FallbackReply(context) ==
  IF context.symbol > 0
  THEN <<[c |-> "a", n |-> context.symbol]>> \o
       (IF context.bullish THEN TickerShipping
        ELSE IF context.growth THEN TickerGrowth
        ELSE TickerTraction)
  ELSE IF context.bots THEN CannedBots
  ELSE IF context.building THEN CannedBuilding
  ELSE CannedReply

\* The answers of the generator as polling.js:379-381 reads them: with or
\* without a text in msg.content[0], the text made of letters and spaces.
GeneratorAnswers ==
  {a \in [content : BOOLEAN, text : GeneratedTexts] :
     /\ \A i \in 1..Len(a.text) : a.text[i].c \in {"a", " "}
     /\ ~a.content => a.text = <<>>}

\* polling.js:379-381  msg.content && msg.content[0] && msg.content[0].text
\* ? msg.content[0].text.trim() : ''   (the trim is that of ResearchReplyText)
AnswerText(answer) == IF answer.content THEN answer.text ELSE <<>>

FallbackInputs == [answer : GeneratorAnswers, context : FallbackContexts]

\* ---- The research stage of the research poller (polling.js:187-365) ----

\* What the calls of the research stage do for one mention: v2Client.get of
\* the tweet (line 191: rejects, answers without conversation_id, answers with
\* one), findThreadOrigin (stage1-thread-origin.js:11-41: null on an empty
\* answer or a caught error, else the thread), buildContextKnowledge
\* (stage2-full-research.js:116-158), the ticker stage (lines 241-266: an
\* exception, no ticker, tickers without data, tickers with data), and whether
\* the conversation memory holds an entry of the pair (line 291).
ResearchOutcomes ==
  [tweetDetail : {"rejects", "noConversation", "found"},
   threadData : {"null", "thread"},
   build : {"rejects", "resolves"},
   tickers : {"throws", "none", "noData", "data"},
   remembered : BOOLEAN]

\* polling.js:187-226  contextKnowledge after the nested try blocks: "none"
\* for null, "thread" for the summary built from the thread
ContextKnowledge(o) ==
  IF o.tweetDetail = "found" /\ o.threadData = "thread" /\ o.build = "resolves"
  THEN "thread" ELSE "none"

\* polling.js:188 and 203-207  threadOriginContext is set
ThreadOriginContext(o) == o.tweetDetail = "found" /\ o.threadData = "thread"

\* The context left as the nested try blocks made it.
WithoutFallback(contextKnowledge) == contextKnowledge

\* polling.js:229-237  if (!contextKnowledge) contextKnowledge =
\* {conversationSummary: mentionText, ..., research: [], threadLength: 1}
WithFallback(contextKnowledge) ==
  IF contextKnowledge = "none" THEN "mentionText" ELSE contextKnowledge

\* polling.js:187-365  the research stage for one mention: whether
\* anthropic.messages.create is called, and with which conversation summary,
\* thread origin and ticker context. A null contextKnowledge throws at line
\* 271 and a remembered pair at line 291 (isFollowUp); both are caught at 485.
ResearchStage(o) ==
  LET contextKnowledge == WithFallback(ContextKnowledge(o))
  IN [generatorCalled |-> contextKnowledge # "none" /\ ~o.remembered,
      conversationSummary |-> contextKnowledge,
      threadOrigin |-> ThreadOriginContext(o),
      tickerContext |-> contextKnowledge # "none" /\ o.tickers = "data"]

\* The answers of the generator, for each of the two pollers of polling.js.
ReplyInputs ==
  [variant : {"research"}, text : GeneratedTexts] \cup
  [variant : {"strict"}, text : StrictTexts]

\* ---- The first research poller (src/PRODUCTION-READY.md:651-888) ----

\* What the calls made for one eligible mention do: v2Client.get of the tweet
\* (line 722), the conversation search (729), buildContextKnowledge (741),
\* anthropic.messages.create (783: rejects, or answers with an empty text, a
\* statement or a text holding a question mark) and v2Client.post (859:
\* rejects, answers without an id, answers with the id of the reply).
FirstPollerOutcomes ==
  [tweetDetail : {"rejects", "noConversation", "found"},
   convTweets : {"rejects", "empty", "tweets"},
   build : {"rejects", "resolves"},
   generate : {"rejects", "empty", "statement", "question"},
   post : {"rejects", "noId", "posted"}]

\* PRODUCTION-READY.md:720-752  contextKnowledge after the nested try blocks:
\* "none" for null, "built" for the object buildContextKnowledge returned
FirstPollerContext(o) ==
  IF o.tweetDetail = "found" /\ o.convTweets = "tweets" /\ o.build = "resolves"
  THEN "built" ELSE "none"

\* PRODUCTION-READY.md:755-762  the fallback object has the fields
\* conversationSummary, topics, research and threadLength, and no projects;
\* the object of buildContextKnowledge has projects
\* (stage2-full-research.js:151-157).
FirstPollerFallback(contextKnowledge) ==
  IF contextKnowledge = "none"
  THEN [conversationSummary |-> "mentionText", projects |-> FALSE]
  ELSE [conversationSummary |-> "thread", projects |-> TRUE]

\* PRODUCTION-READY.md:718-883  the loop body for one eligible mention. The
\* argument of messages.create reads contextKnowledge.projects.length (line
\* 811), which throws for an object without projects before the call is made;
\* the catch of line 881 ends the iteration. A question is rejected at 852.
FirstPollerBody(o) ==
  LET contextKnowledge == FirstPollerFallback(FirstPollerContext(o))
      called == contextKnowledge.projects
      submitted == called /\ o.generate \in {"empty", "statement"}
  IN [conversationSummary |-> contextKnowledge.conversationSummary,
      fallbackUsed |-> FirstPollerContext(o) = "none",
      generatorCalled |-> called,
      publisherCalled |-> submitted,
      posted |-> submitted /\ o.post = "posted"]

\* ---- findThreadOrigin (src/src/stages/stage1-thread-origin.js:11-41) ----

\* The tweets a conversation search can return: tweet i of the response has
\* id i and a created_at among MaxCreatedAt instants (two tweets can share one).
ThreadTweets ==
  UNION {{[i \in 1..n |-> [id |-> i, created_at |-> at[i]]] :
            at \in [1..n -> 1..MaxCreatedAt]} : n \in 0..MaxThread}

\* What the search of lines 14-18 does: it throws, it answers without a data
\* field, or it answers with a list of tweets (that can be empty).
ThreadSearches ==
  {[kind |-> k, data |-> <<>>] : k \in {"throws", "nodata"}}
  \cup {[kind |-> "tweets", data |-> d] : d \in ThreadTweets}

\* The tweets as the search returned them (no sort).
Unsorted(data) == data

\* One step of the sort: tweet t goes behind every tweet that the comparator
\* of lines 25-27 does not put after it (the sort is stable).
RECURSIVE InsertByCreatedAt(_, _)
InsertByCreatedAt(sorted, t) ==
  IF sorted = <<>> THEN <<t>>
  ELSE LET last == sorted[Len(sorted)]
           front == SubSeq(sorted, 1, Len(sorted) - 1)
       IN IF last.created_at - t.created_at <= 0
          THEN Append(sorted, t)
          ELSE Append(InsertByCreatedAt(front, t), last)

RECURSIVE SortFrom(_, _, _)
SortFrom(data, i, sorted) ==
  IF i > Len(data) THEN sorted
  ELSE SortFrom(data, i + 1, InsertByCreatedAt(sorted, data[i]))

\* stage1-thread-origin.js:25-27  allTweets.data.sort by created_at
SortByCreatedAt(data) == SortFrom(data, 1, <<>>)

\* stage1-thread-origin.js:11-41  findThreadOrigin. The value is <<>> for
\* null and a one-element sequence holding the returned object otherwise.
FindThreadOrigin(search) ==
  IF search.kind = "throws" THEN <<>>
  ELSE IF search.kind = "nodata" \/ Len(search.data) = 0 THEN <<>>
  ELSE LET sorted == SortByCreatedAt(search.data)
       IN <<[root |-> sorted[1], allTweets |-> sorted,
             threadLength |-> Len(sorted)]>>

\* ---- follow-up detection (src/unnamed/part_001:33-89, polling.js:291) ----

\* part_001:73  const withinWindow = timeDiff < 300000
FollowUpWindow == 300000

\* part_001:74  substring(0, 100) of the mention and of last_mention
TextPrefix == 100

\* Date.now() - last_reply_time, in milliseconds
ElapsedTimes == {0, 1, 299999, 300000, 300001, 600000}

\* Position of the first character at which the mention's text and
\* last_mention differ; 0 when the two texts are equal.
FirstDifferences == {0, 1, 100, 101}

\* What getConversationContext finds for the pair of the mention: no entry,
\* or the entry saveReplyToMemory left (lines 38-62).
MemoryEntries ==
  {[present |-> FALSE, elapsed |-> 0, differsAt |-> 0, reply_count |-> 0]}
  \cup [present : {TRUE}, elapsed : ElapsedTimes,
        differsAt : FirstDifferences, reply_count : 1..MaxRepliesPerPair]

\* part_001:74  the first 100 characters of the two texts differ
DifferentText(differsAt) == differsAt # 0 /\ differsAt <= TextPrefix

\* part_001:64-77  isFollowUp(authorId, conversationId, mentionText);
\* mentionText is "undefined" when the caller passes two arguments, and then
\* line 74 throws as soon as the pair has an entry.
IsFollowUp(entry, mentionText) ==
  IF ~entry.present THEN "false"
  ELSE IF mentionText = "undefined" THEN "throws"
  ELSE IF entry.elapsed < FollowUpWindow /\ DifferentText(entry.differsAt)
       THEN "true" ELSE "false"

\* part_001:79-89  getFollowUpContext: null (0), or the previous reply of
\* the pair, named by its reply_count
GetFollowUpContext(entry) == IF ~entry.present THEN 0 ELSE entry.reply_count

\* polling.js:291 and 310  how poll treats a mention: it throws out of the
\* loop body, or it generates a follow-up with the previous reply as context,
\* or it generates a fresh reply.
FollowUpAtPoll(entry) ==
  LET answer == IsFollowUp(entry, "undefined")
      followUpContext == IF answer = "true" THEN GetFollowUpContext(entry) ELSE 0
  IN IF answer = "throws" THEN [kind |-> "throws", context |-> 0]
     ELSE IF followUpContext # 0
          THEN [kind |-> "followUp", context |-> followUpContext]
          ELSE [kind |-> "fresh", context |-> 0]

\* ---- identifyTopics (src/src/stages/stage2-full-research.js:40-71) ----

\* stage2-full-research.js:70  Array.from(topics.values()).slice(0, 10)
TopicCap == 10
\* stage2-full-research.js:63  topics.size < 8
ConceptCap == 8
\* stage2-full-research.js:140  projectsToResearch.slice(0, 8)
ResearchCap == 8

\* A thread as identifyTopics reads it: its distinct handles (matches of
\* /@[\w]+/g) and its distinct capitalized phrases that are no handle name, each
\* list in the order of first occurrence, with the number of matches counted
\* at lines 58 and 65 and, for a phrase, whether it has more than 3 characters.
MentionCounts == {1, 2}
Threads ==
  [handles : UNION {[1..n -> MentionCounts] : n \in 0..MaxHandles},
   terms : UNION {[1..n -> [mentions : MentionCounts, long : BOOLEAN]] :
                    n \in 0..MaxTerms}]

\* stage2-full-research.js:56-59  every handle becomes a project topic
HandleTopics(handles) ==
  [i \in 1..Len(handles) |->
     [name |-> <<"@", i>>, type |-> "project", mentions |-> handles[i]]]

\* stage2-full-research.js:62-68  from phrase k on: a phrase of more than 3
\* characters becomes a concept topic while the map holds fewer than 8 topics
RECURSIVE ConceptsAdded(_, _, _)
ConceptsAdded(topics, terms, k) ==
  IF k > Len(terms) THEN topics
  ELSE ConceptsAdded(
         IF Len(topics) < ConceptCap /\ terms[k].long
         THEN Append(topics, [name |-> <<"T", k>>, type |-> "concept",
                              mentions |-> terms[k].mentions])
         ELSE topics,
         terms, k + 1)

\* Array.prototype.slice(0, n)
Slice(seq, n) == SubSeq(seq, 1, IF Len(seq) < n THEN Len(seq) ELSE n)

\* stage2-full-research.js:40-71  identifyTopics
IdentifyTopics(thread) ==
  Slice(ConceptsAdded(HandleTopics(thread.handles), thread.terms, 1), TopicCap)

\* ---- buildContextKnowledge (src/src/stages/stage2-full-research.js) ----

\* What deepResearchTopic's search does for one topic (lines 80-90): it
\* throws, finds no tweet, or finds tweets.
LookupOutcomes == {"throws", "nothing", "data"}

\* The topic lists identifyTopics can return, by their numbers of projects
\* (the handles, first in the list) and of concepts (added while the list
\* holds fewer than 8 topics).
TopicLists ==
  {tl \in [projects : 0..TopicCap, concepts : 0..ConceptCap] :
     tl.concepts > 0 => tl.projects + tl.concepts <= ConceptCap}

\* stage2-full-research.js:135-140  projects.length > 0 ? projects : topics,
\* cut to 8: the number of topics that are looked up
ResearchedCount(tl) ==
  LET n == IF tl.projects > 0 THEN tl.projects ELSE tl.concepts
  IN IF n > ResearchCap THEN ResearchCap ELSE n

BuildInputs ==
  UNION {[topics : {tl}, lookup : [1..ResearchedCount(tl) -> LookupOutcomes]] :
           tl \in TopicLists}

\* deepResearchTopic without its try/catch: the exception reaches the caller.
DeepResearchUncaught(outcome) ==
  IF outcome = "data" THEN "result"
  ELSE IF outcome = "throws" THEN "throws" ELSE "null"

\* stage2-full-research.js:73-114  deepResearchTopic: null when the search
\* found nothing (87-90) or threw (110-113), the research record otherwise
DeepResearchTopic(outcome) == IF outcome = "data" THEN "result" ELSE "null"

\* stage2-full-research.js:140-150  the loop over the topics to research, from
\* topic i on: a non-null result is pushed; an exception would end the call
RECURSIVE ResearchLoop(_, _, _)
ResearchLoop(lookup, i, research) ==
  IF i > Len(lookup) THEN [returned |-> TRUE, research |-> research]
  ELSE LET result == DeepResearchTopic(lookup[i])
       IN IF result = "throws" THEN [returned |-> FALSE, research |-> research]
          ELSE ResearchLoop(lookup, i + 1,
                 IF result # "null" THEN Append(research, i) ELSE research)

\* stage2-full-research.js:116-158  buildContextKnowledge: whether it returns,
\* and the topics (by position) of the entries of the research list
BuildContextKnowledge(in) ==
  LET done == ResearchLoop(in.lookup, 1, <<>>)
  IN [returned |-> done.returned, research |-> done.research,
      topics |-> in.topics.projects + in.topics.concepts,
      projects |-> in.topics.projects]

\* ------------------------------------------------------ /tmp-tracking poller
\* src/PRODUCTION-READY.md lines 331-549: the poller that keeps its tracking
\* in /tmp/replied-tracking.json.
TmpMaxMention == 2
TmpMaxReplies == 4
TmpPolls == {1, 2}
TmpMentionIds == 1..TmpMaxMention
TmpKeys == (TmpMentionIds \cup ConversationIds) \X Authors

\* PRODUCTION-READY.md:421-423  convId and trackingKey
TmpTrackingKey(id) ==
  <<IF tmpMentions[id].conv = 0 THEN id ELSE tmpMentions[id].conv, tmpMentions[id].author>>

\* PRODUCTION-READY.md:401-407  the search has no since_id: every mention, newest first
TmpSearchResult(newest) == [k \in 1..newest |-> newest - k + 1]

\* PRODUCTION-READY.md:425-436  the two skip tests of one loop iteration
TmpSkipped(rt, seen, id) ==
  \/ tmpMentions[id].author \in seen
  \/ rt[TmpTrackingKey(id)] >= MaxRepliesPerPair

RECURSIVE TmpFirstEligible(_, _, _, _)
TmpFirstEligible(batch, i, seen, rt) ==
  IF i > Len(batch) THEN i
  ELSE IF TmpSkipped(rt, seen, batch[i]) THEN TmpFirstEligible(batch, i + 1, seen, rt)
  ELSE i

TmpIdlePoll == [pc |-> "idle", batch |-> <<>>, i |-> 0, repliedThisCycle |-> 0,
                authorsSeen |-> {}, initial |-> FALSE]

\* PRODUCTION-READY.md:417-446  the loop from index i up to the next await (the
\* generation for the first mention that is not skipped) or to the end of poll.
TmpLoopFrom(pr, i, rt) ==
  LET j == TmpFirstEligible(pr.batch, i, pr.authorsSeen, rt) IN
  IF i > Len(pr.batch) \/ pr.repliedThisCycle > 0 \/ j > Len(pr.batch)
  THEN TmpIdlePoll
  ELSE [pr EXCEPT !.pc = "generate", !.i = j,
                  !.authorsSeen = @ \cup {tmpMentions[pr.batch[j]].author}]

\* PRODUCTION-READY.md:538-542  the interval timer is created when the first poll returns
TmpTimerAfter(pr, next) == tmpTimer \/ (pr.initial /\ next.pc = "idle")

\* PRODUCTION-READY.md:432 declares `const replyCount` in the body of the loop;
\* the `replyCount++` of line 513 is in that scope and assigns to the constant:
\* it throws a TypeError, which the catch of line 522 logs.  Lines 514-520
\* (repliedThisCycle++, the tracking and the save) are never executed.
TmpBookkeepingThrows == TRUE

\* PRODUCTION-READY.md:512-524  the locals and the tracking after the post
\* returned an id
TmpPosted(pr) ==
  IF TmpBookkeepingThrows THEN pr ELSE [pr EXCEPT !.repliedThisCycle = @ + 1]
TmpTracked(rt, k) ==
  IF TmpBookkeepingThrows THEN rt ELSE [rt EXCEPT ![k] = @ + 1]
TmpCounted(n) ==
  IF TmpBookkeepingThrows THEN n ELSE n + 1

TmpInit ==
  /\ tmpMentions = <<>>
  /\ tmpReplies = [m \in TmpMentionIds |-> 0]
  /\ tmpTracking = [k \in TmpKeys |-> 0]
  /\ tmpFile = [k \in TmpKeys |-> 0]
  /\ tmpReplyCount = 0
  /\ tmpPoll = [p \in TmpPolls |-> IF p = 1 THEN [TmpIdlePoll EXCEPT !.pc = "me", !.initial = TRUE]
                                   ELSE TmpIdlePoll]
  /\ tmpTimer = FALSE
  /\ tmpCyclePosts = [p \in TmpPolls |-> 0]

\* Somebody mentions the bot.
TmpNewMention ==
  /\ Len(tmpMentions) < TmpMaxMention
  /\ \E a \in Authors, c \in ConversationIds :
       tmpMentions' = Append(tmpMentions, [author |-> a, conv |-> c])
  /\ UNCHANGED <<tmpReplies, tmpTracking, tmpFile, tmpReplyCount, tmpPoll, tmpTimer,
                 tmpCyclePosts>>
  /\ UNCHANGED <<pollerVars, webhookVars, pureVars, serverVars>>

\* PRODUCTION-READY.md:541 and 398-400  a timer tick calls poll()
TmpPollStart(p) ==
  /\ tmpTimer
  /\ tmpPoll[p].pc = "idle"
  /\ \A q \in TmpPolls : q < p => tmpPoll[q].pc # "idle"
  /\ tmpPoll' = [tmpPoll EXCEPT ![p] = [TmpIdlePoll EXCEPT !.pc = "me"]]
  /\ tmpCyclePosts' = [tmpCyclePosts EXCEPT ![p] = 0]
  /\ UNCHANGED <<tmpMentions, tmpReplies, tmpTracking, tmpFile, tmpReplyCount, tmpTimer>>
  /\ UNCHANGED <<pollerVars, webhookVars, pureVars, serverVars>>

\* PRODUCTION-READY.md:400-401  v2Client.me() resolves; the search is sent
TmpMeResolves(p) ==
  /\ tmpPoll[p].pc = "me"
  /\ tmpPoll' = [tmpPoll EXCEPT ![p].pc = "search"]
  /\ UNCHANGED <<tmpMentions, tmpReplies, tmpTracking, tmpFile, tmpReplyCount, tmpTimer,
                 tmpCyclePosts>>
  /\ UNCHANGED <<pollerVars, webhookVars, pureVars, serverVars>>

\* PRODUCTION-READY.md:400-401 and 529-531  me() or the search rejects
TmpFetchRejects(p) ==
  /\ tmpPoll[p].pc \in {"me", "search"}
  /\ tmpPoll' = [tmpPoll EXCEPT ![p] = TmpIdlePoll]
  /\ tmpTimer' = TmpTimerAfter(tmpPoll[p], TmpIdlePoll)
  /\ UNCHANGED <<tmpMentions, tmpReplies, tmpTracking, tmpFile, tmpReplyCount,
                 tmpCyclePosts>>
  /\ UNCHANGED <<pollerVars, webhookVars, pureVars, serverVars>>

\* PRODUCTION-READY.md:401-446  the search resolves; the loop runs up to the
\* first await
TmpSearchResolves(p) ==
  /\ tmpPoll[p].pc = "search"
  /\ LET pr == [tmpPoll[p] EXCEPT !.batch = TmpSearchResult(Len(tmpMentions))]
         next == IF Len(pr.batch) = 0 THEN TmpIdlePoll ELSE TmpLoopFrom(pr, 1, tmpTracking)
     IN /\ tmpPoll' = [tmpPoll EXCEPT ![p] = next]
        /\ tmpTimer' = TmpTimerAfter(pr, next)
  /\ UNCHANGED <<tmpMentions, tmpReplies, tmpTracking, tmpFile, tmpReplyCount,
                 tmpCyclePosts>>
  /\ UNCHANGED <<pollerVars, webhookVars, pureVars, serverVars>>

\* PRODUCTION-READY.md:446-505  the generator answers with a text that passes
\* the filter of lines 491-501; the reply is sent to the publisher
TmpGenerateResolves(p) ==
  /\ tmpPoll[p].pc = "generate"
  /\ tmpPoll' = [tmpPoll EXCEPT ![p].pc = "post"]
  /\ UNCHANGED <<tmpMentions, tmpReplies, tmpTracking, tmpFile, tmpReplyCount, tmpTimer,
                 tmpCyclePosts>>
  /\ UNCHANGED <<pollerVars, webhookVars, pureVars, serverVars>>

\* PRODUCTION-READY.md:498-501 and 525-527  the text is rejected by the filter,
\* or the generator throws: next mention
TmpGenerateSkips(p) ==
  /\ tmpPoll[p].pc = "generate"
  /\ LET pr == tmpPoll[p]
         next == TmpLoopFrom(pr, pr.i + 1, tmpTracking)
     IN /\ tmpPoll' = [tmpPoll EXCEPT ![p] = next]
        /\ tmpTimer' = TmpTimerAfter(pr, next)
  /\ UNCHANGED <<tmpMentions, tmpReplies, tmpTracking, tmpFile, tmpReplyCount,
                 tmpCyclePosts>>
  /\ UNCHANGED <<pollerVars, webhookVars, pureVars, serverVars>>

\* PRODUCTION-READY.md:505-524  the post returns an id
TmpPostSucceeds(p) ==
  /\ tmpPoll[p].pc = "post"
  /\ tmpReplies[tmpPoll[p].batch[tmpPoll[p].i]] < TmpMaxReplies
  /\ LET pr == tmpPoll[p]
         id == pr.batch[pr.i]
         rt == TmpTracked(tmpTracking, TmpTrackingKey(id))
         next == TmpLoopFrom(TmpPosted(pr), pr.i + 1, rt)
     IN /\ tmpReplies' = [tmpReplies EXCEPT ![id] = @ + 1]
        /\ tmpReplyCount' = TmpCounted(tmpReplyCount)
        /\ tmpTracking' = rt
        /\ tmpFile' = IF TmpBookkeepingThrows THEN tmpFile ELSE rt
        /\ tmpCyclePosts' = [tmpCyclePosts EXCEPT ![p] = @ + 1]
        /\ tmpPoll' = [tmpPoll EXCEPT ![p] = next]
        /\ tmpTimer' = TmpTimerAfter(pr, next)
  /\ UNCHANGED tmpMentions
  /\ UNCHANGED <<pollerVars, webhookVars, pureVars, serverVars>>

\* PRODUCTION-READY.md:505-524  the post throws or returns no id
TmpPostFails(p) ==
  /\ tmpPoll[p].pc = "post"
  /\ LET pr == tmpPoll[p]
         next == TmpLoopFrom(pr, pr.i + 1, tmpTracking)
     IN /\ tmpPoll' = [tmpPoll EXCEPT ![p] = next]
        /\ tmpTimer' = TmpTimerAfter(pr, next)
  /\ UNCHANGED <<tmpMentions, tmpReplies, tmpTracking, tmpFile, tmpReplyCount,
                 tmpCyclePosts>>
  /\ UNCHANGED <<pollerVars, webhookVars, pureVars, serverVars>>

TmpPollStep(p) ==
  \/ TmpPollStart(p)
  \/ TmpMeResolves(p)
  \/ TmpFetchRejects(p)
  \/ TmpSearchResolves(p)
  \/ TmpGenerateResolves(p)
  \/ TmpGenerateSkips(p)
  \/ TmpPostSucceeds(p)
  \/ TmpPostFails(p)

TmpNext ==
  \/ TmpNewMention
  \/ \E p \in TmpPolls : TmpPollStep(p)

\* ------------------------------------------------------------ try and catch
\* The catch that receives an exception thrown at a site of a program: "own"
\* (the try/catch of the called helper, which then returns null), "mention" and
\* "post" (the try blocks inside the loop of poll), "outer" (the try/catch
\* around the whole body), "none" if no try block encloses the site.
\*   polling.js (poll): 109/489 around v2Client.me and the search; 181/485
\*     around the processing of one mention; 455/482 around the post.
\*   polling-server.js (pollForMentions): 99/174 around the whole body;
\*     generateReply 180/210 and postReply 217/225 around their own call.
\*   stream.js (handleMention): 107/147 around the whole body; generateReply
\*     153/183 and postReply 190/198 around their own call.
NoTryCatches(program, site) == "none"
TryCatches(program, site) ==
  IF program = "poll"
  THEN (IF site = "fetch" THEN "outer"
        ELSE IF site = "post" THEN "post" ELSE "mention")
  ELSE IF site \in {"generate", "post"} THEN "own" ELSE "outer"

\* The poll invocation after an exception at a site: next if a catch of poll
\* receives it, else the exception leaves poll.
PollThrown(site, next) ==
  IF TryCatches("poll", site) = "none"
  THEN [IdlePoll EXCEPT !.pc = "escaped"] ELSE next

\* ------------------------------------------------------------ stream handler
\* src/stream.js lines 106-229: handleMention, called from the 'data' listener.
StreamSlots == {1, 2}

\* stream.js:123  replyCount >= 20
DailyLimit == 20

StreamIdle == [pc |-> "idle"]

\* stream.js:123  the daily limit test
StreamLimitReached(n) == n >= DailyLimit

StreamInit ==
  /\ streamReplyCount = 0
  /\ streamHandler = [h \in StreamSlots |-> StreamIdle]
  /\ reconnectAttempts = 0
  /\ reconnectTimers = 0
  /\ connecting = IF "stream" \in running THEN 1 ELSE 0
  /\ liveStreams = 0
  /\ endingStreams = 0

\* The handler after an exception at a site: handleMention returns (the
\* exception was caught and logged), or the exception leaves handleMention.
StreamThrown(site) ==
  IF TryCatches("stream", site) = "none" THEN [pc |-> "escaped"] ELSE StreamIdle

\* stream.js:219-225 and 106-117  a tweet with a known author arrives on the
\* stream: handleMention is called and suspended in hasRecentReply.  Nothing
\* tests whether another call is in progress.
StreamData(h) ==
  /\ "stream" \in running
  /\ streamHandler[h].pc = "idle"
  /\ \A g \in StreamSlots : g < h => streamHandler[g].pc # "idle"
  /\ streamHandler' = [streamHandler EXCEPT ![h] = [pc |-> "dedup"]]
  /\ UNCHANGED <<streamReplyCount, running, connectionVars, dbPollerVars, pollerVars,
                 webhookVars, tmpVars, pureVars>>

\* stream.js:117-129  hasRecentReply resolves (db.js:50-62 never rejects):
\* recent reply, or limit reached: return; else generateReply is called
StreamDedupResolves(h) ==
  /\ streamHandler[h].pc = "dedup"
  /\ \E recent \in BOOLEAN :
       streamHandler' = [streamHandler EXCEPT ![h] =
         IF recent \/ StreamLimitReached(streamReplyCount)
         THEN StreamIdle ELSE [pc |-> "generate"]]
  /\ UNCHANGED <<streamReplyCount, running, connectionVars, dbPollerVars, pollerVars,
                 webhookVars, tmpVars, pureVars>>

\* stream.js:129-136 and 152-182  generateReply returns a text: postReply is called
StreamGenerateReturns(h) ==
  /\ streamHandler[h].pc = "generate"
  /\ streamHandler' = [streamHandler EXCEPT ![h] = [pc |-> "post"]]
  /\ UNCHANGED <<streamReplyCount, running, connectionVars, dbPollerVars, pollerVars,
                 webhookVars, tmpVars, pureVars>>

\* stream.js:130-133 and 183-186  the generator failed (generateReply returns
\* null) or answered an empty text: return
StreamGenerateFails(h) ==
  /\ streamHandler[h].pc = "generate"
  /\ streamHandler' = [streamHandler EXCEPT ![h] = StreamThrown("generate")]
  /\ UNCHANGED <<streamReplyCount, running, connectionVars, dbPollerVars, pollerVars,
                 webhookVars, tmpVars, pureVars>>

\* stream.js:136-139 and 189-197  the reply is posted and postReply returns its
\* id: replyCount++, addReply is called
StreamPostReturns(h) ==
  /\ streamHandler[h].pc = "post"
  /\ streamReplyCount < MaxStreamReplies
  /\ streamReplyCount' = streamReplyCount + 1
  /\ streamHandler' = [streamHandler EXCEPT ![h] = [pc |-> "insert"]]
  /\ UNCHANGED <<running, connectionVars, dbPollerVars, pollerVars,
                 webhookVars, tmpVars, pureVars>>

\* stream.js:137 and 198-201  the post failed: postReply returns null
StreamPostFails(h) ==
  /\ streamHandler[h].pc = "post"
  /\ streamHandler' = [streamHandler EXCEPT ![h] = StreamThrown("post")]
  /\ UNCHANGED <<streamReplyCount, running, connectionVars, dbPollerVars, pollerVars,
                 webhookVars, tmpVars, pureVars>>

\* stream.js:139-145  addReply resolves
StreamInsertResolves(h) ==
  /\ streamHandler[h].pc = "insert"
  /\ streamHandler' = [streamHandler EXCEPT ![h] = StreamIdle]
  /\ UNCHANGED <<streamReplyCount, running, connectionVars, dbPollerVars, pollerVars,
                 webhookVars, tmpVars, pureVars>>

\* stream.js:139 and 147-149  addReply rejects (db.js:74-75)
StreamInsertRejects(h) ==
  /\ streamHandler[h].pc = "insert"
  /\ streamHandler' = [streamHandler EXCEPT ![h] = StreamThrown("insert")]
  /\ UNCHANGED <<streamReplyCount, running, connectionVars, dbPollerVars, pollerVars,
                 webhookVars, tmpVars, pureVars>>

StreamStep(h) ==
  \/ StreamData(h)
  \/ StreamDedupResolves(h)
  \/ StreamGenerateReturns(h)
  \/ StreamGenerateFails(h)
  \/ StreamPostReturns(h)
  \/ StreamPostFails(h)
  \/ StreamInsertResolves(h)
  \/ StreamInsertRejects(h)

StreamNext == \E h \in StreamSlots : StreamStep(h)

\* ---------------------------------------------------------- stream connection
\* src/stream.js lines 204-262 and 286: startTwitterStream, called once by
\* the listen callback and then by the timers its handlers set.  The handler
\* actions above take the delivery of tweets as given; the actions below
\* follow the connections and say nothing about the tweets delivered.

\* stream.js:53  MAX_RECONNECT_ATTEMPTS
MaxReconnectAttempts == 5

\* A test that lets every reconnect through.
AlwaysReconnect(attempts) == TRUE

\* stream.js:235, 247 and 255  if (reconnectAttempts < MAX_RECONNECT_ATTEMPTS)
CanReconnect(attempts) == attempts < MaxReconnectAttempts

\* stream.js:235-241, 247-250 and 255-259  the body shared by the two
\* listeners and the catch: reconnectAttempts++ and one more timer, or nothing
Rescheduled ==
  IF CanReconnect(reconnectAttempts)
  THEN /\ reconnectAttempts' = reconnectAttempts + 1
       /\ reconnectTimers' = reconnectTimers + 1
  ELSE UNCHANGED <<reconnectAttempts, reconnectTimers>>

\* Connections being opened or scheduled to be opened.
Pending == reconnectTimers + connecting

\* stream.js:208-229  searchStream resolves: reconnectAttempts = 0 and the
\* listeners are registered on the new stream.  Nothing closes an older one.
ConnectResolves ==
  /\ connecting > 0
  /\ liveStreams + endingStreams < MaxLiveStreams
  /\ connecting' = connecting - 1
  /\ liveStreams' = liveStreams + 1
  /\ reconnectAttempts' = 0
  /\ UNCHANGED <<reconnectTimers, endingStreams, streamReplyCount, streamHandler,
                 running, dbPollerVars, pollerVars, webhookVars, tmpVars, pureVars>>

\* stream.js:208 and 252-260  searchStream rejects
ConnectRejects ==
  /\ connecting > 0
  /\ connecting' = connecting - 1
  /\ Rescheduled
  /\ UNCHANGED <<liveStreams, endingStreams, streamReplyCount, streamHandler,
                 running, dbPollerVars, pollerVars, webhookVars, tmpVars, pureVars>>

\* stream.js:238, 249 and 258  a timer fires: startTwitterStream is called
ReconnectTimerFires ==
  /\ reconnectTimers > 0
  /\ reconnectTimers' = reconnectTimers - 1
  /\ connecting' = connecting + 1
  /\ UNCHANGED <<reconnectAttempts, liveStreams, endingStreams, streamReplyCount,
                 streamHandler, running, dbPollerVars, pollerVars, webhookVars,
                 tmpVars, pureVars>>

\* stream.js:231-242  a stream raises 'error': it stays open, or it is
\* closed, or it is closed and raises 'end' next
StreamErrorEvent ==
  /\ liveStreams > 0
  /\ Pending < MaxPending
  /\ Rescheduled
  /\ \E then \in {"open", "closed", "ending"} :
       /\ liveStreams' = IF then = "open" THEN liveStreams ELSE liveStreams - 1
       /\ endingStreams' = IF then = "ending" THEN endingStreams + 1
                           ELSE endingStreams
  /\ UNCHANGED <<connecting, streamReplyCount, streamHandler,
                 running, dbPollerVars, pollerVars, webhookVars, tmpVars, pureVars>>

\* stream.js:245-251  a stream raises 'end', after an 'error' or without one
StreamEndEvent ==
  /\ Pending < MaxPending
  /\ \E after \in {"error", "nothing"} :
       IF after = "error"
       THEN /\ endingStreams > 0
            /\ endingStreams' = endingStreams - 1
            /\ UNCHANGED liveStreams
       ELSE /\ liveStreams > 0
            /\ liveStreams' = liveStreams - 1
            /\ UNCHANGED endingStreams
  /\ Rescheduled
  /\ UNCHANGED <<connecting, streamReplyCount, streamHandler,
                 running, dbPollerVars, pollerVars, webhookVars, tmpVars, pureVars>>

ConnectionNext ==
  \/ ConnectResolves
  \/ ConnectRejects
  \/ ReconnectTimerFires
  \/ StreamErrorEvent
  \/ StreamEndEvent

\* ---------------------------------------------------------------- DB poller
\* src/polling-server.js lines 98-177 and 254-258: pollForMentions, called
\* once at startup and then by setInterval(pollForMentions, 60000).
DbPolls == {1, 2}

\* What pollForMentions reads of the author of a tweet: no user of that id in
\* response.includes.users, an unverified user, a verified user.
DbAuthors == {"unknown", "unverified", "verified"}

DbIdlePoll == [pc |-> "idle", since |-> 0, batch |-> <<>>, i |-> 0,
               initial |-> FALSE]

\* polling-server.js:111-115  the tweets newer than since_id, newest first
\* (fewer than max_results = 10 in every scenario)
DbSearchResult(since, newest) == [k \in 1..(newest - since) |-> newest - k + 1]

DbInit ==
  /\ dbTweets = <<>>
  /\ lastProcessedTweetId = 0
  /\ dbReplyCount = 0
  /\ dbTimer = FALSE
  /\ dbPoll = [p \in DbPolls |->
                 IF p = 1 /\ "dbPoller" \in running
                 THEN [DbIdlePoll EXCEPT !.pc = "search", !.initial = TRUE]
                 ELSE DbIdlePoll]

\* polling-server.js:174-176  the invocation after an exception at a site: it
\* returns (caught and logged by the outer catch, the rest of the body is
\* skipped), or the exception leaves pollForMentions.
DbThrown(pr, site) ==
  IF TryCatches("dbPoller", site) = "none"
  THEN [DbIdlePoll EXCEPT !.pc = "escaped", !.initial = pr.initial]
  ELSE [DbIdlePoll EXCEPT !.pc = "caught"]

\* polling-server.js:125-143  the loop from tweet i of the batch up to the
\* first await: a tweet of an unknown author throws at line 129 (author is
\* undefined); an unverified author is skipped; for a verified author the
\* invocation is suspended in hasRecentReply.  pc "done": the loop is over.
RECURSIVE DbLoopFrom(_, _)
DbLoopFrom(pr, i) ==
  IF i > Len(pr.batch) THEN [pr EXCEPT !.pc = "done", !.i = i]
  ELSE LET author == dbTweets[pr.batch[i]]
       IN IF author = "unknown" THEN DbThrown(pr, "author")
          ELSE IF author = "unverified" THEN DbLoopFrom(pr, i + 1)
          ELSE [pr EXCEPT !.pc = "dedup", !.i = i]

\* polling-server.js:117-120 and 168-177  the invocation goes on to next or
\* returns: after the loop lastProcessedTweetId becomes response.meta.newest_id;
\* after a caught exception, or without tweets, it is left as it was.
\* 255-258: the return of the first invocation arms the timer.
DbReturns(p, next) ==
  LET over == next.pc \in {"done", "caught"}
  IN /\ dbPoll' = [dbPoll EXCEPT ![p] = IF over THEN DbIdlePoll ELSE next]
     /\ lastProcessedTweetId' =
          IF next.pc = "done" /\ Len(next.batch) > 0 THEN next.batch[1]
          ELSE lastProcessedTweetId
     /\ dbTimer' = (dbTimer \/ (dbPoll[p].initial /\ over))

\* Somebody mentions the bot: the platform holds one more matching tweet.
DbNewTweet ==
  /\ "dbPoller" \in running
  /\ Len(dbTweets) < DbMaxTweets
  /\ \E a \in DbAuthors : dbTweets' = Append(dbTweets, a)
  /\ UNCHANGED <<lastProcessedTweetId, dbReplyCount, dbPoll, dbTimer, running,
                 streamVars, pollerVars, webhookVars, tmpVars, pureVars>>

\* polling-server.js:258 and 98-115  a timer tick calls pollForMentions: the
\* search is sent with the since_id read now.  Nothing tests whether an
\* earlier invocation is still in progress.
DbPollStart(p) ==
  /\ dbTimer
  /\ dbPoll[p].pc = "idle"
  /\ \A q \in DbPolls : q < p => dbPoll[q].pc # "idle"
  /\ dbPoll' = [dbPoll EXCEPT ![p] =
                  [DbIdlePoll EXCEPT !.pc = "search", !.since = lastProcessedTweetId]]
  /\ UNCHANGED <<dbTweets, lastProcessedTweetId, dbReplyCount, dbTimer, running,
                 streamVars, pollerVars, webhookVars, tmpVars, pureVars>>

\* polling-server.js:115-143  the search resolves: without tweets the
\* invocation returns (117-120); else the loop runs up to the first await
DbSearchResolves(p) ==
  /\ dbPoll[p].pc = "search"
  /\ LET batch == DbSearchResult(dbPoll[p].since, Len(dbTweets))
         pr == [dbPoll[p] EXCEPT !.batch = batch]
     IN DbReturns(p, IF Len(batch) = 0 THEN [pr EXCEPT !.pc = "done"]
                     ELSE DbLoopFrom(pr, 1))
  /\ UNCHANGED <<dbTweets, dbReplyCount, running,
                 streamVars, pollerVars, webhookVars, tmpVars, pureVars>>

\* polling-server.js:115 and 174-176  the search rejects
DbSearchRejects(p) ==
  /\ dbPoll[p].pc = "search"
  /\ DbReturns(p, DbThrown(dbPoll[p], "search"))
  /\ UNCHANGED <<dbTweets, dbReplyCount, running,
                 streamVars, pollerVars, webhookVars, tmpVars, pureVars>>

\* polling-server.js:143-149  hasRecentReply resolves (db.js:50-62 never
\* rejects): a recent reply skips the tweet; else generateReply is called
DbDedupResolves(p) ==
  /\ dbPoll[p].pc = "dedup"
  /\ \E recent \in BOOLEAN :
       DbReturns(p, IF recent THEN DbLoopFrom(dbPoll[p], dbPoll[p].i + 1)
                    ELSE [dbPoll[p] EXCEPT !.pc = "generate"])
  /\ UNCHANGED <<dbTweets, dbReplyCount, running,
                 streamVars, pollerVars, webhookVars, tmpVars, pureVars>>

\* polling-server.js:149-156 and 179-209  generateReply returns a text
DbGenerateReturns(p) ==
  /\ dbPoll[p].pc = "generate"
  /\ DbReturns(p, [dbPoll[p] EXCEPT !.pc = "post"])
  /\ UNCHANGED <<dbTweets, dbReplyCount, running,
                 streamVars, pollerVars, webhookVars, tmpVars, pureVars>>

\* polling-server.js:150-153 and 210-213  the generator failed (generateReply
\* returns null) or answered an empty text: next tweet
DbGenerateFails(p) ==
  /\ dbPoll[p].pc = "generate"
  /\ DbReturns(p, IF TryCatches("dbPoller", "generate") = "own"
                  THEN DbLoopFrom(dbPoll[p], dbPoll[p].i + 1)
                  ELSE DbThrown(dbPoll[p], "generate"))
  /\ UNCHANGED <<dbTweets, dbReplyCount, running,
                 streamVars, pollerVars, webhookVars, tmpVars, pureVars>>

\* polling-server.js:156-159 and 216-224  the reply is posted and postReply
\* returns its id: replyCount++, addReply is called
DbPostReturns(p) ==
  /\ dbPoll[p].pc = "post"
  /\ dbReplyCount < DbMaxReplies
  /\ dbReplyCount' = dbReplyCount + 1
  /\ DbReturns(p, [dbPoll[p] EXCEPT !.pc = "insert"])
  /\ UNCHANGED <<dbTweets, running,
                 streamVars, pollerVars, webhookVars, tmpVars, pureVars>>

\* polling-server.js:157 and 225-228  the post failed (postReply returns
\* null): next tweet
DbPostFails(p) ==
  /\ dbPoll[p].pc = "post"
  /\ DbReturns(p, IF TryCatches("dbPoller", "post") = "own"
                  THEN DbLoopFrom(dbPoll[p], dbPoll[p].i + 1)
                  ELSE DbThrown(dbPoll[p], "post"))
  /\ UNCHANGED <<dbTweets, dbReplyCount, running,
                 streamVars, pollerVars, webhookVars, tmpVars, pureVars>>

\* polling-server.js:159-166  addReply resolves: next tweet
DbInsertResolves(p) ==
  /\ dbPoll[p].pc = "insert"
  /\ DbReturns(p, DbLoopFrom(dbPoll[p], dbPoll[p].i + 1))
  /\ UNCHANGED <<dbTweets, dbReplyCount, running,
                 streamVars, pollerVars, webhookVars, tmpVars, pureVars>>

\* polling-server.js:159 and 174-176  addReply rejects (db.js:74-75)
DbInsertRejects(p) ==
  /\ dbPoll[p].pc = "insert"
  /\ DbReturns(p, DbThrown(dbPoll[p], "insert"))
  /\ UNCHANGED <<dbTweets, dbReplyCount, running,
                 streamVars, pollerVars, webhookVars, tmpVars, pureVars>>

DbPollStep(p) ==
  \/ DbPollStart(p)
  \/ DbSearchResolves(p)
  \/ DbSearchRejects(p)
  \/ DbDedupResolves(p)
  \/ DbGenerateReturns(p)
  \/ DbGenerateFails(p)
  \/ DbPostReturns(p)
  \/ DbPostFails(p)
  \/ DbInsertResolves(p)
  \/ DbInsertRejects(p)

DbNext ==
  \/ DbNewTweet
  \/ \E p \in DbPolls : DbPollStep(p)

\* ------------------------------------------------------------------- init
\* What fs.writeFileSync(file, text) does: it writes the text; or it throws
\* when it opens the file, which is then as it was; or it throws after it
\* opened the file for writing, which emptied it: the file then holds the
\* part of the text that was written.  The catch of each caller logs a throw.
WriteOutcomes == {"written", "unopened", "truncated"}

\* polling.js:32-106 and 501-509: empty data directory, the files are loaded,
\* the server listens and the first poll is suspended in v2Client.me().
ScenarioState(polls, maxMentions, writes) ==
  /\ limits = [polls |-> polls, mentions |-> maxMentions, writes |-> writes]
  /\ saveErrors = {}
  /\ memoryKeys = <<>>
  /\ fileMemoryKeys = <<>>
  /\ fileTruncated = {}
  /\ WebhookInit
  /\ TmpInit
  /\ StreamInit
  /\ DbInit
  /\ mentions = <<>>
  /\ replies = [m \in MentionIds |-> 0]
  /\ lastMentionId = 0
  /\ replyTracking = [k \in Keys |-> 0]
  /\ repliedMentions = {}
  /\ conversationMemory = [k \in Keys |-> 0]
  /\ replyCount = 0
  /\ errorCount = 0
  /\ errorAge = "gt"
  /\ fileTracking = [k \in Keys |-> 0]
  /\ fileMentions = {}
  /\ fileMemory = [k \in Keys |-> 0]
  /\ poll = [p \in Polls |-> IF p = 1 /\ p \in polls
                             THEN [IdlePoll EXCEPT !.pc = "me", !.initial = TRUE]
                             ELSE IdlePoll]
  /\ timerArmed = FALSE
  /\ cyclePosts = [p \in Polls |-> 0]
  /\ cycleLeft = [p \in Polls |-> {}]
  /\ bootMentions = {}
  /\ awaitingRetry = {}

\* The scenarios in which every write of a file succeeds.
ProgramState(polls, maxMentions) == ScenarioState(polls, maxMentions, {"written"})

\* The process runs neither stream.js nor polling-server.js.
ProgramInit(polls, maxMentions) ==
  /\ running = {}
  /\ ProgramState(polls, maxMentions)

InitWith(polls, maxMentions) ==
  /\ ProgramInit(polls, maxMentions)
  /\ input = "none"
  /\ output = <<>>

Init == InitWith(MainPolls, MaxMention)

InitBurst == InitWith(Polls, BurstMentions)

InitRestart == InitWith({1}, RestartMentions)

InitRetry == InitWith({1}, RetryMentions)

InitCrash == InitWith({1}, MaxMention)

\* One poll in progress at a time, on a disk whose writes may fail
\* (fs.writeFileSync throws).
InitDisk ==
  /\ running = {}
  /\ ScenarioState({1}, MaxMention, WriteOutcomes)
  /\ input = "none"
  /\ output = <<>>

\* The same with one mention, for the restarts of the process on such a disk.
InitDiskRestart ==
  /\ running = {}
  /\ ScenarioState({1}, BurstMentions, WriteOutcomes)
  /\ input = "none"
  /\ output = <<>>

\* ------------------------------------------------------------ environment
\* Somebody mentions the bot: the platform holds one more tweet.
NewMention ==
  /\ Len(mentions) < limits.mentions
  /\ \E a \in Authors, c \in ConversationIds :
       mentions' = Append(mentions, [author |-> a, conv |-> c])
  /\ UNCHANGED <<replies, lastMentionId, replyTracking, repliedMentions,
                 conversationMemory, replyCount, errorCount, errorAge,
                 fileTracking, fileMentions, fileMemory, saveErrors, memoryKeys, fileMemoryKeys, fileTruncated, poll, timerArmed,
                 cyclePosts, cycleLeft, bootMentions, limits, awaitingRetry,
                 webhookVars, otherVars>>

\* Time passes: the age of the last rate-limit error reaches, then exceeds, 60 s.
TimePasses ==
  /\ errorAge # "gt"
  /\ errorAge' = IF errorAge = "lt" THEN "eq" ELSE "gt"
  /\ UNCHANGED <<mentions, replies, lastMentionId, replyTracking, repliedMentions,
                 conversationMemory, replyCount, errorCount,
                 fileTracking, fileMentions, fileMemory, saveErrors, memoryKeys, fileMemoryKeys, fileTruncated, poll, timerArmed,
                 cyclePosts, cycleLeft, bootMentions, limits, awaitingRetry,
                 webhookVars, otherVars>>

\* ------------------------------------------------------------------- poll
\* polling.js:508 and 108-120  a timer tick calls poll(): backoff test, then
\* the invocation is suspended in v2Client.me().  Nothing tests whether an
\* earlier invocation is still in progress.
PollStart(p) ==
  /\ timerArmed
  /\ poll[p].pc = "idle"
  /\ p \in limits.polls
  /\ \A q \in Polls : q < p => poll[q].pc # "idle"
  /\ IF BackingOff
     THEN UNCHANGED <<poll, errorCount, cyclePosts, cycleLeft>>
     ELSE /\ errorCount' = ErrorCountAtStart
          /\ poll' = [poll EXCEPT ![p] = [IdlePoll EXCEPT !.pc = "me"]]
          /\ cyclePosts' = [cyclePosts EXCEPT ![p] = 0]
          /\ cycleLeft' = [cycleLeft EXCEPT ![p] = {}]
  /\ UNCHANGED <<mentions, replies, lastMentionId, replyTracking, repliedMentions,
                 conversationMemory, replyCount, errorAge,
                 fileTracking, fileMentions, fileMemory, saveErrors, memoryKeys, fileMemoryKeys, fileTruncated, timerArmed,
                 bootMentions, limits, awaitingRetry,
                 webhookVars, otherVars>>

\* polling.js:489-498  the catch of poll: a rate-limit error is counted and dated
FetchFailed(p, rateLimit) ==
  /\ rateLimit => errorCount < MaxErrorCount
  /\ errorCount' = IF rateLimit THEN errorCount + 1 ELSE errorCount
  /\ errorAge' = IF rateLimit THEN "lt" ELSE errorAge
  /\ poll' = [poll EXCEPT ![p] = PollThrown("fetch", IdlePoll)]
  /\ timerArmed' = TimerAfter(poll[p], PollThrown("fetch", IdlePoll))
  /\ UNCHANGED <<mentions, replies, lastMentionId, replyTracking, repliedMentions,
                 conversationMemory, replyCount,
                 fileTracking, fileMentions, fileMemory, saveErrors, memoryKeys, fileMemoryKeys, fileTruncated,
                 cyclePosts, cycleLeft, bootMentions, limits, awaitingRetry,
                 webhookVars, otherVars>>

\* polling.js:120-133  v2Client.me() resolves; the search is sent with the
\* since_id read now.
MeResolves(p) ==
  /\ poll[p].pc = "me"
  /\ poll' = [poll EXCEPT ![p].pc = "search", ![p].since = lastMentionId]
  /\ UNCHANGED <<mentions, replies, lastMentionId, replyTracking, repliedMentions,
                 conversationMemory, replyCount, errorCount, errorAge,
                 fileTracking, fileMentions, fileMemory, saveErrors, memoryKeys, fileMemoryKeys, fileTruncated, timerArmed,
                 cyclePosts, cycleLeft, bootMentions, limits, awaitingRetry,
                 webhookVars, otherVars>>

\* polling.js:120  v2Client.me() rejects
MeRejects(p) ==
  /\ poll[p].pc = "me"
  /\ FetchFailed(p, FALSE)

\* The platform answers the search: the response in flight holds the mentions
\* newer than since_id at this moment.
SearchAnswered(p) ==
  /\ poll[p].pc = "search"
  /\ poll' = [poll EXCEPT ![p].pc = "searchResponse",
                          ![p].batch = SearchResult(poll[p].since, Len(mentions))]
  /\ UNCHANGED <<mentions, replies, lastMentionId, replyTracking, repliedMentions,
                 conversationMemory, replyCount, errorCount, errorAge,
                 fileTracking, fileMentions, fileMemory, saveErrors, memoryKeys, fileMemoryKeys, fileTruncated, timerArmed,
                 cyclePosts, cycleLeft, bootMentions, limits, awaitingRetry,
                 webhookVars, otherVars>>

\* polling.js:133  the search rejects
SearchRejects(p) ==
  /\ poll[p].pc = "search"
  /\ FetchFailed(p, FALSE)

\* polling.js:120 and 489-494  v2Client.me() rejects with a rate-limit error
\* (message containing '429' or 'rate limit')
MeRateLimited(p) ==
  /\ poll[p].pc = "me"
  /\ FetchFailed(p, TRUE)

\* polling.js:133 and 489-494  the search rejects with a rate-limit error
SearchRateLimited(p) ==
  /\ poll[p].pc = "search"
  /\ FetchFailed(p, TRUE)

\* polling.js:133-181  the response arrives: the cursor is moved to the newest
\* mention of the batch and the loop runs up to the first await.
SearchResolves(p) ==
  /\ poll[p].pc = "searchResponse"
  /\ LET pr == poll[p]
         next == IF Len(pr.batch) = 0 THEN IdlePoll
                 ELSE LoopFrom(pr, 1, repliedMentions, replyTracking)
     IN /\ lastMentionId' = IF Len(pr.batch) > 0 THEN pr.batch[1] ELSE lastMentionId
        /\ poll' = [poll EXCEPT ![p] = next]
        /\ awaitingRetry' = RetryBegun(awaitingRetry, next)
        /\ timerArmed' = TimerAfter(pr, next)
  /\ UNCHANGED <<mentions, replies, replyTracking, repliedMentions,
                 conversationMemory, replyCount, errorCount, errorAge,
                 fileTracking, fileMentions, fileMemory, saveErrors, memoryKeys, fileMemoryKeys, fileTruncated,
                 cyclePosts, cycleLeft, bootMentions, limits, webhookVars, otherVars>>

\* isFollowUp answering false for every pair.
IsFollowUpReturns(id) == FALSE

\* part_001:64-77 as called at polling.js:291 with two arguments: mentionText is
\* undefined, so `mentionText.substring` throws whenever the pair has an entry.
IsFollowUpThrows(id) == conversationMemory[TrackingKey(id)] > 0

\* polling.js:187-310  the research stage ends (with a built context or with
\* the fallback context); isFollowUp is evaluated; the text generator is called.
\* polling.js:485-487  an exception skips to the next mention.
ResearchDone(p) ==
  /\ poll[p].pc = "research"
  /\ LET pr == poll[p]
         next == IF IsFollowUpThrows(Current(pr))
                 THEN PollThrown("research", AfterFailure(pr))
                 ELSE [pr EXCEPT !.pc = "generate"]
     IN /\ poll' = [poll EXCEPT ![p] = next]
        /\ awaitingRetry' = RetryBegun(awaitingRetry, next)
        /\ timerArmed' = TimerAfter(pr, next)
  /\ UNCHANGED <<mentions, replies, lastMentionId, replyTracking, repliedMentions,
                 conversationMemory, replyCount, errorCount, errorAge,
                 fileTracking, fileMentions, fileMemory, saveErrors, memoryKeys, fileMemoryKeys, fileTruncated,
                 cyclePosts, cycleLeft, bootMentions, limits, webhookVars, otherVars>>

\* polling.js:365-461  the generator answers (a text, or an empty text that is
\* replaced by a canned fallback); the reply is sent to the publisher.
GenerateResolves(p) ==
  /\ poll[p].pc = "generate"
  /\ poll' = [poll EXCEPT ![p].pc = "post"]
  /\ UNCHANGED <<mentions, replies, lastMentionId, replyTracking, repliedMentions,
                 conversationMemory, replyCount, errorCount, errorAge,
                 fileTracking, fileMentions, fileMemory, saveErrors, memoryKeys, fileMemoryKeys, fileTruncated, timerArmed,
                 cyclePosts, cycleLeft, bootMentions, limits, awaitingRetry,
                 webhookVars, otherVars>>

\* polling.js:365 and 485-487  the generator rejects: next mention
GenerateRejects(p) ==
  /\ poll[p].pc = "generate"
  /\ LET pr == poll[p]
         next == PollThrown("generate", AfterFailure(pr))
     IN /\ poll' = [poll EXCEPT ![p] = next]
        /\ awaitingRetry' = RetryBegun(awaitingRetry, next)
        /\ timerArmed' = TimerAfter(pr, next)
  /\ UNCHANGED <<mentions, replies, lastMentionId, replyTracking, repliedMentions,
                 conversationMemory, replyCount, errorCount, errorAge,
                 fileTracking, fileMentions, fileMemory, saveErrors, memoryKeys, fileMemoryKeys, fileTruncated,
                 cyclePosts, cycleLeft, bootMentions, limits, webhookVars, otherVars>>

\* polling.js:467  replyTracking[trackingKey] = (replyTracking[trackingKey] || 0) + 1
Tracked(rt, k) == [rt EXCEPT ![k] = @ + 1]

\* polling.js:471  repliedMentions.add(mentionId)
MentionRecorded(rm, id) == rm \cup {id}

\* part_001:38-62  saveReplyToMemory: the entry of the pair, reply_count + 1
Remembered(cm, k) == [cm EXCEPT ![k] = @ + 1]

\* polling.js:64-70 and 477  saveReplyTracking: the object whose text the
\* file holds afterwards
TrackingNotSaved(rt, outcome) == fileTracking
SavedTracking(rt, outcome) == IF outcome = "unopened" THEN fileTracking ELSE rt

\* polling.js:84-90 and 478  saveRepliedMentions: the set whose text the file
\* holds afterwards
SavedMentions(rm, outcome) == IF outcome = "unopened" THEN fileMentions ELSE rm

\* part_001:47  conversationMemory.set(key, entry): a new key comes last
KeysAfterSet(keys, k) ==
  IF \E i \in 1..Len(keys) : keys[i] = k THEN keys ELSE Append(keys, k)

\* part_001:51-59  saveReplyToMemory writes one line per entry, in the order
\* of the Map: the keys of the complete lines the file holds afterwards, lines
\* being the number of lines written whole when the write threw
SavedMemoryKeys(keys, outcome, lines) ==
  CASE outcome = "written" -> keys
    [] outcome = "unopened" -> fileMemoryKeys
    [] outcome = "truncated" -> SubSeq(keys, 1, lines)

\* part_001:51-59  the entries of the complete lines the file holds afterwards
SavedMemory(cm, keys, outcome, lines) ==
  CASE outcome = "written" -> cm
    [] outcome = "unopened" -> fileMemory
    [] outcome = "truncated" ->
         [k \in Keys |-> IF \E i \in 1..lines : keys[i] = k THEN cm[k] ELSE 0]

\* The files that hold a part of a text after the three writes.
TruncatedAfter(memory, tracking, replied) ==
  LET outcome == [f \in {"memory", "tracking", "mentions"} |->
                    IF f = "memory" THEN memory
                    ELSE IF f = "tracking" THEN tracking ELSE replied]
  IN {f \in DOMAIN outcome :
        \/ outcome[f] = "truncated"
        \/ outcome[f] = "unopened" /\ f \in fileTruncated}

\* polling.js:68, 88 and part_001:58  the errors the three catches log
SaveErrorsLogged(memory, tracking, replied) ==
  {e \in {"memory", "tracking", "mentions"} :
     \/ e = "memory" /\ memory # "written"
     \/ e = "tracking" /\ tracking # "written"
     \/ e = "mentions" /\ replied # "written"}

\* polling.js:456-481  the post returns an id: counters, tracking, memory and
\* files are updated; polling.js:153 then ends the loop.
PostSucceeds(p) ==
  /\ poll[p].pc = "post"
  /\ replies[Current(poll[p])] < MaxReplies
  /\ \E memory, tracking, replied \in limits.writes :
     \E lines \in IF memory = "truncated"
                  THEN 0..Len(KeysAfterSet(memoryKeys, TrackingKey(Current(poll[p]))))
                  ELSE {0} :
     LET pr == poll[p]
         id == Current(pr)
         k == TrackingKey(id)
         keys == KeysAfterSet(memoryKeys, k)
         rt == Tracked(replyTracking, k)
         rm == MentionRecorded(repliedMentions, id)
         after == [pr EXCEPT !.repliedThisCycle = @ + 1]
         next == LoopFrom(after, pr.i + 1, rm, rt)
     IN /\ replies' = [replies EXCEPT ![id] = @ + 1]
        /\ replyCount' = replyCount + 1
        /\ replyTracking' = rt
        /\ repliedMentions' = rm
        /\ conversationMemory' = Remembered(conversationMemory, k)
        /\ memoryKeys' = keys
        /\ fileMemory' = SavedMemory(conversationMemory', keys, memory, lines)
        /\ fileMemoryKeys' = SavedMemoryKeys(keys, memory, lines)
        /\ fileTruncated' = TruncatedAfter(memory, tracking, replied)
        /\ fileTracking' = SavedTracking(rt, tracking)
        /\ fileMentions' = SavedMentions(rm, replied)
        /\ saveErrors' = SaveErrorsLogged(memory, tracking, replied)
        /\ cyclePosts' = [cyclePosts EXCEPT ![p] = @ + 1]
        /\ cycleLeft' = [cycleLeft EXCEPT ![p] =
             {pr.batch[j] : j \in {n \in (pr.i + 1)..Len(pr.batch) :
                ~Skipped(rm, rt, pr.mentionsSeen, pr.batch[n])}}]
        /\ poll' = [poll EXCEPT ![p] = next]
        /\ awaitingRetry' = RetryBegun(awaitingRetry, next)
        /\ timerArmed' = TimerAfter(pr, next)
  /\ UNCHANGED <<mentions, lastMentionId, errorCount, errorAge,
                 bootMentions, limits, webhookVars, otherVars>>

\* polling.js:463 and 482-484  the post throws, or returns no id: nothing is
\* recorded and the loop goes on with the next mention.
PostFails(p) ==
  /\ poll[p].pc = "post"
  /\ LET pr == poll[p]
         next == PollThrown("post", AfterFailure([pr EXCEPT !.postFailed = TRUE]))
     IN /\ poll' = [poll EXCEPT ![p] = next]
        /\ awaitingRetry' = RetryBegun(RetryAwaited(awaitingRetry, Current(pr)), next)
        /\ timerArmed' = TimerAfter(pr, next)
  /\ UNCHANGED <<mentions, replies, lastMentionId, replyTracking, repliedMentions,
                 conversationMemory, replyCount, errorCount, errorAge,
                 fileTracking, fileMentions, fileMemory, saveErrors, memoryKeys, fileMemoryKeys, fileTruncated,
                 cyclePosts, cycleLeft, bootMentions, limits, webhookVars, otherVars>>


\* polling.js:52-62  loadReplyTracking: JSON.parse of a part of a text throws,
\* the catch logs it and replyTracking stays empty
LoadedTracking ==
  IF "tracking" \in fileTruncated THEN [k \in Keys |-> 0] ELSE fileTracking

\* polling.js:72-82  loadRepliedMentions: the same, repliedMentions stays empty
LoadedMentions ==
  IF "mentions" \in fileTruncated THEN {} ELSE fileMentions

\* polling.js:52-62, 72-82, part_001:17-31, polling.js:32-34, 105-106, 501-509
\* what a start of the process leaves: the three files loaded, the counters
\* and the cursor at their initial values, the first poll suspended in me().
\* loadConversationMemory sets the entry of every complete line (fileMemory,
\* in the order fileMemoryKeys) before JSON.parse throws on a line written in
\* part.
StartedWithoutLoad ==
  /\ replyTracking' = [k \in Keys |-> 0]
  /\ repliedMentions' = {}
  /\ conversationMemory' = [k \in Keys |-> 0]
  /\ memoryKeys' = <<>>
  /\ bootMentions' = LoadedMentions
  /\ replyCount' = 0
  /\ lastMentionId' = 0
  /\ errorCount' = 0
  /\ errorAge' = "gt"
  /\ poll' = [p \in Polls |-> IF p = 1 THEN [IdlePoll EXCEPT !.pc = "me", !.initial = TRUE]
                              ELSE IdlePoll]
  /\ timerArmed' = FALSE
  /\ cyclePosts' = [p \in Polls |-> 0]
  /\ cycleLeft' = [p \in Polls |-> {}]
Started ==
  /\ replyTracking' = LoadedTracking
  /\ repliedMentions' = LoadedMentions
  /\ conversationMemory' = fileMemory
  /\ memoryKeys' = fileMemoryKeys
  /\ bootMentions' = LoadedMentions
  /\ replyCount' = 0
  /\ lastMentionId' = 0
  /\ errorCount' = 0
  /\ errorAge' = "gt"
  /\ poll' = [p \in Polls |-> IF p = 1 THEN [IdlePoll EXCEPT !.pc = "me", !.initial = TRUE]
                              ELSE IdlePoll]
  /\ timerArmed' = FALSE
  /\ cyclePosts' = [p \in Polls |-> 0]
  /\ cycleLeft' = [p \in Polls |-> {}]

\* The process is stopped and started again; the polls in progress are lost.
Restart ==
  /\ Started
  /\ UNCHANGED <<mentions, replies, fileTracking, fileMentions, fileMemory, saveErrors,
                 fileMemoryKeys, fileTruncated, limits, awaitingRetry,
                 webhookVars, otherVars>>

\* The process dies after the platform accepted a reply and before
\* polling.js:463-478 ran, and is started again.
CrashAfterPost(p) ==
  /\ poll[p].pc = "post"
  /\ replies[Current(poll[p])] < MaxReplies
  /\ replies' = [replies EXCEPT ![Current(poll[p])] = @ + 1]
  /\ Started
  /\ UNCHANGED <<mentions, fileTracking, fileMentions, fileMemory, saveErrors,
                 fileMemoryKeys, fileTruncated, limits, awaitingRetry,
                 webhookVars, otherVars>>

PollStep(p) ==
  \/ PollStart(p)
  \/ MeResolves(p)
  \/ MeRejects(p)
  \/ SearchAnswered(p)
  \/ SearchRejects(p)
  \/ SearchResolves(p)
  \/ ResearchDone(p)
  \/ GenerateResolves(p)
  \/ GenerateRejects(p)
  \/ PostSucceeds(p)
  \/ PostFails(p)

Next ==
  \/ NewMention
  \/ \E p \in Polls : PollStep(p)

\* The main scenario: at most two polls in progress, no restart.
Spec == Init /\ [][Next]_vars

\* Polls that do not overlap, on a disk whose writes may fail.
SpecDisk == InitDisk /\ [][Next]_vars

\* One mention, polls that do not overlap and restarts, on such a disk.
NextDisk == Next \/ Restart
SpecDiskRestart == InitDiskRestart /\ [][NextDisk]_vars

\* The burst scenario: one mention, up to four polls in progress.
SpecBurst == InitBurst /\ [][Next]_vars

NextRestart ==
  \/ Next
  \/ Restart
  \/ \E p \in Polls : CrashAfterPost(p)

\* The webhook server, its database answering without error.
SpecWebhookReliable == Init /\ [][WebhookReliableNext]_vars

\* The webhook server.
SpecWebhook == Init /\ [][WebhookNext]_vars

\* Polls that do not overlap: the timer ticks, every external call answers
\* (with a result or an error) sooner or later, and the platform does not
\* fail every fetch for ever.
SpecRetry ==
  /\ InitRetry
  /\ [][Next]_vars
  /\ WF_vars(\E p \in Polls : PollStep(p))
  /\ \A p \in Polls : SF_vars(MeResolves(p)) /\ SF_vars(SearchAnswered(p))

InitBackoff == InitWith({1}, BurstMentions)

NextBackoff ==
  \/ Next
  \/ TimePasses
  \/ \E p \in Polls : MeRateLimited(p)
  \/ \E p \in Polls : SearchRateLimited(p)

\* One poll at a time, the platform answering some fetches with a rate-limit
\* error, time passing.
SpecBackoff == InitBackoff /\ [][NextBackoff]_vars

\* SpecBackoff with the clock advancing and the timer ticking.
SpecBackoffFair ==
  /\ InitBackoff
  /\ [][NextBackoff]_vars
  /\ WF_vars(TimePasses)
  /\ WF_vars(\E p \in Polls : PollStep(p))

\* The process runs stream.js.
InitStream ==
  /\ running = {"stream"}
  /\ ProgramState({}, 0)
  /\ input = "none"
  /\ output = <<>>

\* The stream handler.
SpecStream == InitStream /\ [][StreamNext]_vars

\* stream.js:122-129  a handler passes the two tests and calls generateReply
StreamAdmitted(h) ==
  StreamDedupResolves(h) /\ streamHandler'[h].pc = "generate"

NextStreamDays ==
  \/ StreamNext
  \/ WebhookTick

\* The stream handler over several days: the clock advances, tweets keep
\* arriving, every call returns sooner or later, and each of hasRecentReply,
\* generateReply and postReply does not fail for ever.
SpecStreamDays ==
  /\ InitStream
  /\ [][NextStreamDays]_vars
  /\ WF_vars(WebhookTick)
  /\ \A h \in StreamSlots :
       /\ WF_vars(StreamStep(h))
       /\ SF_vars(StreamAdmitted(h))
       /\ SF_vars(StreamGenerateReturns(h))
       /\ SF_vars(StreamPostReturns(h))

\* The connections of the stream server.
SpecConnection == InitStream /\ [][ConnectionNext]_vars

\* The process runs polling-server.js.
InitDbPoller ==
  /\ running = {"dbPoller"}
  /\ ProgramState({}, 0)
  /\ input = "none"
  /\ output = <<>>

\* The database poller.
SpecDbPoller == InitDbPoller /\ [][DbNext]_vars

\* The process runs one of polling.js, polling-server.js and stream.js.
InitErrors ==
  /\ \/ running = {} /\ ProgramState({1}, RetryMentions)
     \/ running \in {{"dbPoller"}, {"stream"}} /\ ProgramState({}, 0)
  /\ input = "none"
  /\ output = <<>>

NextErrors ==
  \/ Next
  \/ DbNext
  \/ StreamNext

\* The three programs, every external call answering or failing.
SpecErrors == InitErrors /\ [][NextErrors]_vars

\* part_006:8-31  shouldReplyTo is called
CallShouldReplyTo ==
  /\ output = <<>>
  /\ output' = <<ShouldReplyTo(FilterView(input))>>
  /\ UNCHANGED <<input, pollerVars, webhookVars, tmpVars, serverVars>>

InitFilter ==
  /\ ProgramInit(MainPolls, MaxMention)
  /\ input \in FilterInputs
  /\ output = <<>>

\* shouldReplyTo applied to every event.
SpecFilter == InitFilter /\ [][CallShouldReplyTo]_vars

\* polling.js:377-461 and 781-818  the generator has answered: the reply text
\* is prepared
PrepareReplyText ==
  /\ output = <<>>
  /\ output' = <<IF input.variant = "research"
                 THEN ResearchReplyText(input.text, CannedReply)
                 ELSE StrictReplyText(input.text)>>
  /\ UNCHANGED <<input, pollerVars, webhookVars, tmpVars, serverVars>>

InitReplyText ==
  /\ ProgramInit(MainPolls, MaxMention)
  /\ input \in ReplyInputs
  /\ output = <<>>

\* The preparation of the reply text applied to every answer of the generator.
SpecReplyText == InitReplyText /\ [][PrepareReplyText]_vars

\* polling.js:365-461  the generator has answered the research poller: the
\* reply text is read, replaced by a fallback when empty, and prepared
ComposeReply ==
  /\ output = <<>>
  /\ output' = <<ResearchReplyText(AnswerText(input.answer),
                                   FallbackReply(input.context))>>
  /\ UNCHANGED <<input, pollerVars, webhookVars, tmpVars, serverVars>>

InitFallback ==
  /\ ProgramInit(MainPolls, MaxMention)
  /\ input \in FallbackInputs
  /\ output = <<>>

\* The composition of the reply applied to every answer and context.
SpecFallback == InitFallback /\ [][ComposeReply]_vars

\* polling.js:187-365  the research stage runs for one eligible mention
RunResearch ==
  /\ output = <<>>
  /\ output' = <<ResearchStage(input)>>
  /\ UNCHANGED <<input, pollerVars, webhookVars, tmpVars, serverVars>>

InitResearch ==
  /\ ProgramInit(MainPolls, MaxMention)
  /\ input \in ResearchOutcomes
  /\ output = <<>>

\* The research stage under every combination of outcomes of its calls.
SpecResearch == InitResearch /\ [][RunResearch]_vars

\* stage2-full-research.js:116-158  buildContextKnowledge is called
CallBuildContextKnowledge ==
  /\ output = <<>>
  /\ output' = <<BuildContextKnowledge(input)>>
  /\ UNCHANGED <<input, pollerVars, webhookVars, tmpVars, serverVars>>

InitBuild ==
  /\ ProgramInit(MainPolls, MaxMention)
  /\ input \in BuildInputs
  /\ output = <<>>

\* buildContextKnowledge under every topic list and every lookup outcome.
SpecBuild == InitBuild /\ [][CallBuildContextKnowledge]_vars

\* stage2-full-research.js:40-71  identifyTopics is called
CallIdentifyTopics ==
  /\ output = <<>>
  /\ output' = <<IdentifyTopics(input)>>
  /\ UNCHANGED <<input, pollerVars, webhookVars, tmpVars, serverVars>>

InitTopics ==
  /\ ProgramInit(MainPolls, MaxMention)
  /\ input \in Threads
  /\ output = <<>>

\* identifyTopics applied to every thread.
SpecTopics == InitTopics /\ [][CallIdentifyTopics]_vars

\* stage1-thread-origin.js:11-41  findThreadOrigin is called
CallFindThreadOrigin ==
  /\ output = <<>>
  /\ output' = <<FindThreadOrigin(input)>>
  /\ UNCHANGED <<input, pollerVars, webhookVars, tmpVars, serverVars>>

InitThread ==
  /\ ProgramInit(MainPolls, MaxMention)
  /\ input \in ThreadSearches
  /\ output = <<>>

\* findThreadOrigin under every outcome of the conversation search.
SpecThread == InitThread /\ [][CallFindThreadOrigin]_vars

\* polling.js:291  poll decides how to treat a mention
DecideFollowUp ==
  /\ output = <<>>
  /\ output' = <<FollowUpAtPoll(input)>>
  /\ UNCHANGED <<input, pollerVars, webhookVars, tmpVars, serverVars>>

InitFollowUp ==
  /\ ProgramInit(MainPolls, MaxMention)
  /\ input \in MemoryEntries
  /\ output = <<>>

\* The follow-up decision of poll for every memory entry, elapsed time and
\* text of the mention.
SpecFollowUp == InitFollowUp /\ [][DecideFollowUp]_vars

\* PRODUCTION-READY.md:718-883  the loop body runs for one eligible mention
RunFirstPollerBody ==
  /\ output = <<>>
  /\ output' = <<FirstPollerBody(input)>>
  /\ UNCHANGED <<input, pollerVars, webhookVars, tmpVars, serverVars>>

InitFirstPoller ==
  /\ ProgramInit(MainPolls, MaxMention)
  /\ input \in FirstPollerOutcomes
  /\ output = <<>>

\* The loop body of the first research poller under every combination of
\* outcomes of its calls.
SpecFirstPoller == InitFirstPoller /\ [][RunFirstPollerBody]_vars

\* ------------------------------------------------------------------------
\* analyzeThreadEvolution (src/unnamed/part_004:43-88).  A root text is a
\* sequence of characters; a string literal of the source that is only ever
\* assigned and compared (a label) is a one-element sequence holding it.

\* part_004:53-65  the literals tested by includes(), group by group, in the
\* order of the else-if chain, with the label each group assigns
KeywordGroups ==
  << [keywords |-> << <<"b","u","y">>, <<"s","e","l","l">>,
                      <<"p","r","i","c","e">> >>,
      label |-> <<"Price action / Trading decision">>],
     [keywords |-> << <<"s","h","i","p">>, <<"l","a","u","n","c","h">>,
                      <<"b","u","i","l","d">> >>,
      label |-> <<"Product launch / Development milestone">>],
     [keywords |-> << <<"t","e","a","m">>, <<"h","i","r","e">>,
                      <<"j","o","i","n">> >>,
      label |-> <<"Team / Hiring / People">>],
     [keywords |-> << <<"f","u","n","d">>, <<"r","a","i","s","e">>,
                      <<"c","a","p","i","t","a","l">> >>,
      label |-> <<"Fundraising / Capital">>],
     [keywords |-> << <<"p","a","r","t","n","e","r","s","h","i","p">>,
                      <<"i","n","t","e","g","r","a","t">>,
                      <<"c","o","l","l","a","b">> >>,
      label |-> <<"Partnership / Integration / Collaboration">>],
     [keywords |-> << <<"t","h","a","n","k","s">>, <<"h","o","n","o","r">>,
                      <<"g","r","a","t","e","f","u","l">> >>,
      label |-> <<"Gratitude / Appreciation / Milestone celebration">>],
     [keywords |-> << <<"a","n","n","o","u","n","c","e","m","e","n","t">>,
                      <<"e","x","c","i","t","e","d">>,
                      <<"t","h","r","i","l","l","e","d">> >> ,
      label |-> <<"Announcement / Exciting news">>] >>

Keywords ==
  {KeywordGroups[g].keywords[i] : g \in DOMAIN KeywordGroups, i \in 1..3}

\* The label of the group that lists keyword k.
GroupLabel(k) ==
  KeywordGroups[CHOOSE g \in DOMAIN KeywordGroups :
                  \E i \in 1..3 : KeywordGroups[g].keywords[i] = k].label

\* Root texts: up to MaxWords words joined by single spaces, a word being a
\* keyword, a keyword with a capital first letter, or a word with no keyword.
MaxWords == 2
Capitalised ==
  { <<"P","a","r","t","n","e","r","s","h","i","p">>, <<"B","u","y">>,
    <<"T","H","A","N","K","S">> }
Fillers == { <<"g","m">>, <<"s","h","i","b","a">> }
Words == Keywords \cup Capitalised \cup Fillers

RECURSIVE JoinWords(_)
JoinWords(ws) ==
  IF ws = <<>> THEN <<>>
  ELSE IF Len(ws) = 1 THEN ws[1]
  ELSE ws[1] \o <<" ">> \o JoinWords(Tail(ws))

RootTexts == {JoinWords(ws) : ws \in UNION {[1..n -> Words] : n \in 0..MaxWords}}

\* String.prototype.toLowerCase of a root text
LowerCase(text) == [i \in 1..Len(text) |-> LowerChar(text[i])]

\* String.prototype.includes(k): k occurs in text as a run of characters
IncludesText(text, k) ==
  \E i \in 0..(Len(text) - Len(k)) : SubSeq(text, i + 1, i + Len(k)) = k

\* part_004:53-65  one condition of the chain: some keyword of group g occurs
\* in the lower-cased root text
GroupMatches(text, g) ==
  \E i \in 1..3 : IncludesText(LowerCase(text), KeywordGroups[g].keywords[i])

\* part_004:50-68  coreMessage: the label of the first group of the chain
\* that matches, otherwise the first 80 characters of the root text
CoreMessageLength == 80
CoreMessage(originalText) ==
  IF \E g \in DOMAIN KeywordGroups : GroupMatches(originalText, g)
  THEN KeywordGroups[CHOOSE g \in DOMAIN KeywordGroups :
                       /\ GroupMatches(originalText, g)
                       /\ \A h \in 1..(g - 1) : ~GroupMatches(originalText, h)
                    ].label
  ELSE Slice(originalText, CoreMessageLength)

\* part_004:43-88  analyzeThreadEvolution(threadData); threadData is <<>> for
\* null and <<[root |-> ...]>> otherwise, and so is the result.
AnalyzeThreadEvolution(threadData) ==
  IF threadData = <<>> THEN <<>>
  ELSE << [originalTopic |-> threadData[1].root,
           coreMessage |-> CoreMessage(threadData[1].root)] >>

ThreadDatas == {<<>>} \cup {<<[root |-> text]>> : text \in RootTexts}

CallAnalyzeThreadEvolution ==
  /\ output = <<>>
  /\ output' = <<AnalyzeThreadEvolution(input)>>
  /\ UNCHANGED <<input, pollerVars, webhookVars, tmpVars, serverVars>>

InitEvolution ==
  /\ ProgramInit(MainPolls, MaxMention)
  /\ input \in ThreadDatas
  /\ output = <<>>

\* analyzeThreadEvolution under every root text.
SpecEvolution == InitEvolution /\ [][CallAnalyzeThreadEvolution]_vars

\* The /tmp-tracking poller.
SpecTmp == Init /\ [][TmpNext]_vars

\* Restarts of the process, between polls that do not overlap.
SpecRestart == InitRestart /\ [][NextRestart]_vars

\* ================================================================== claims
\* Replies the platform holds to the mentions 1..n whose pair is k.
RECURSIVE PairRepliesUpTo(_, _)
PairRepliesUpTo(k, n) ==
  IF n = 0 THEN 0
  ELSE (IF TrackingKey(n) = k THEN replies[n] ELSE 0) + PairRepliesUpTo(k, n - 1)

PairReplies(k) == PairRepliesUpTo(k, Len(mentions))

InProgress == {p \in Polls : poll[p].pc # "idle"}

\* The poll of slot p begins to process a mention in this step (it enters the
\* research stage, from which the generator and the publisher are called).
BeginsProcessing(p) ==
  /\ poll'[p].pc = "research"
  /\ poll[p].pc # "research" \/ poll[p].i # poll'[p].i \/ poll[p].batch # poll'[p].batch

\* C1: every mention id is the target of at most one successfully posted
\* reply, also when a tick starts a poll while an earlier one is suspended.
C1_AtMostOneReplyPerMention ==
  \A m \in MentionIds : replies[m] <= 1

\* C2: a mention id in repliedMentions is never removed, and no poll begins to
\* process (research, generate, publish) a mention that is in repliedMentions,
\* whatever replyTracking holds for its pair.
C2_RepliedMentionSkipped ==
  [][/\ repliedMentions \subseteq repliedMentions'
     /\ \A p \in Polls :
          BeginsProcessing(p) => Current(poll'[p]) \notin repliedMentions]_vars

\* C2 witness: a poll has passed over a mention of its batch that is in
\* repliedMentions and whose pair is below the cap, and processes a later one.
C2_Witness ==
  \E p \in Polls :
    /\ poll[p].pc = "research"
    /\ \E j \in 1..(poll[p].i - 1) :
         /\ poll[p].batch[j] \in repliedMentions
         /\ poll[p].batch[j] \notin poll[p].mentionsSeen
         /\ ~PairCapReached(replyTracking, poll[p].batch[j])

\* C3: for every (conversation, author) pair the number of replies posted to
\* mentions of the pair never exceeds 3.
C3_PairCapHolds ==
  \A k \in Keys : PairReplies(k) <= MaxRepliesPerPair

\* C4: one invocation of poll posts at most one reply.
C4_OneReplyPerCycle ==
  \A p \in Polls : cyclePosts[p] <= 1

\* C4 witness: an invocation posted a reply while its batch still held a
\* mention that passes the three skip tests.
C4_Witness ==
  \E p \in Polls : cyclePosts[p] = 1 /\ cycleLeft[p] # {}

\* C5: a mention that the mentions file held when the process was started
\* never gets another reply, however often it is fetched.
C5_NoReplyAfterRestart ==
  [][\A m \in bootMentions : replies'[m] = replies[m]]_vars

\* C5 witness: after a restart a poll fetched again a mention recorded in the
\* file, passed over it and processes a later mention of the batch.
C5_Witness ==
  \E p \in Polls :
    /\ poll[p].pc = "research"
    /\ \E j \in 1..(poll[p].i - 1) :
         /\ poll[p].batch[j] \in bootMentions
         /\ replies[poll[p].batch[j]] = 1

\* C6: in the step in which a reply to m is posted, the count of m's pair
\* grows by exactly 1, m is in repliedMentions, and both files hold the whole
\* text of the new values (before the poll examines another mention or
\* returns).
C6_PostRecorded ==
  [][\A m \in MentionIds :
       replies'[m] = replies[m] + 1 =>
         /\ replyTracking'[TrackingKey(m)] = replyTracking[TrackingKey(m)] + 1
         /\ \A k \in Keys \ {TrackingKey(m)} : replyTracking'[k] = replyTracking[k]
         /\ repliedMentions' = repliedMentions \cup {m}
         /\ fileTracking' = replyTracking' /\ "tracking" \notin fileTruncated'
         /\ fileMentions' = repliedMentions' /\ "mentions" \notin fileTruncated'
     ]_vars

\* C6 as amended: in the step in which a reply to m is posted, the count of
\* m's pair grows by exactly 1 and m is in repliedMentions; each of the two
\* files holds the whole text of the new value, unless its write threw: then
\* the error is logged and the file is as it was or holds a part of the text.
C6_PostRecordedUnlessWriteThrows ==
  [][\A m \in MentionIds :
       replies'[m] = replies[m] + 1 =>
         /\ replyTracking'[TrackingKey(m)] = replyTracking[TrackingKey(m)] + 1
         /\ \A k \in Keys \ {TrackingKey(m)} : replyTracking'[k] = replyTracking[k]
         /\ repliedMentions' = repliedMentions \cup {m}
         /\ IF "tracking" \in saveErrors'
            THEN \/ /\ fileTracking' = fileTracking
                    /\ "tracking" \in fileTruncated' <=> "tracking" \in fileTruncated
                 \/ /\ fileTracking' = replyTracking'
                    /\ "tracking" \in fileTruncated'
            ELSE fileTracking' = replyTracking' /\ "tracking" \notin fileTruncated'
         /\ IF "mentions" \in saveErrors'
            THEN \/ /\ fileMentions' = fileMentions
                    /\ "mentions" \in fileTruncated' <=> "mentions" \in fileTruncated
                 \/ /\ fileMentions' = repliedMentions'
                    /\ "mentions" \in fileTruncated'
            ELSE fileMentions' = repliedMentions' /\ "mentions" \notin fileTruncated'
     ]_vars

\* C6 witness: a reply was posted and recorded in memory; the write of the
\* tracking file threw after a part of the text was written and the write of
\* the mentions file did not throw.
C6_Witness ==
  \E m \in 1..Len(mentions) :
    /\ replies[m] = 1
    /\ replyTracking[TrackingKey(m)] = 1
    /\ m \in repliedMentions
    /\ "tracking" \in fileTruncated
    /\ m \in fileMentions /\ "mentions" \notin fileTruncated
    /\ saveErrors = {"tracking"}

\* A start of the process on files of which some hold a part of a text: the
\* tracking and the replied mentions whose file does are empty, the memory
\* holds the entries of the complete lines, and the others are as written.
StartLoadsWhatParses ==
  [][(poll'[1].initial /\ ~poll[1].initial) =>
       /\ replyTracking' = IF "tracking" \in fileTruncated
                           THEN [k \in Keys |-> 0] ELSE fileTracking
       /\ repliedMentions' = IF "mentions" \in fileTruncated
                             THEN {} ELSE fileMentions
       /\ \A k \in Keys :
            conversationMemory'[k] =
              IF \E i \in 1..Len(fileMemoryKeys) : fileMemoryKeys[i] = k
              THEN fileMemory[k] ELSE 0]_vars

\* The process was started on a tracking file that holds a part of a text,
\* and has posted a second reply to a mention whose first reply it lost.
RepliedAgainAfterTruncation ==
  \E m \in 1..Len(mentions) :
    /\ replies[m] = 2
    /\ replyTracking[TrackingKey(m)] = 1
    /\ bootMentions = {}

\* The post of slot p ends in this step without a reply having been posted.
PostFailsIn(p) ==
  /\ poll[p].pc = "post"
  /\ poll'[p] # poll[p]
  /\ replies' = replies

\* C7: when the post throws or returns no id, tracking, replied mentions,
\* conversation memory, the files, replyCount and repliedThisCycle are
\* unchanged, and the poll goes on with the next mention of the batch that
\* passes the skip tests (it returns only when there is none).
C7_FailedPostLeavesState ==
  [][\A p \in Polls :
       PostFailsIn(p) =>
         /\ UNCHANGED <<replyTracking, repliedMentions, conversationMemory,
                        replyCount, fileTracking, fileMentions, fileMemory>>
         /\ LET pr == poll[p]
                nx == poll'[p]
                Skip(j) == Skipped(repliedMentions, replyTracking,
                                   pr.mentionsSeen, pr.batch[j])
            IN \/ /\ nx.pc = "research"
                  /\ nx.batch = pr.batch
                  /\ nx.repliedThisCycle = pr.repliedThisCycle
                  /\ nx.i > pr.i
                  /\ \A j \in (pr.i + 1)..(nx.i - 1) : Skip(j)
                  /\ ~Skip(nx.i)
               \/ /\ nx.pc = "idle"
                  /\ \A j \in (pr.i + 1)..Len(pr.batch) : Skip(j)]_vars

\* C7 witness: a poll whose post failed processes the next mention, nothing recorded.
C7_Witness ==
  \E p \in Polls :
    /\ poll[p].pc = "research"
    /\ poll[p].postFailed
    /\ repliedMentions = {}
    /\ replyCount = 0

\* C8: at most one poll invocation is in progress at any time.
C8_NoOverlap ==
  Cardinality(InProgress) <= 1

\* C9: the webhook bot never posts two replies to the same author within 24 hours.
C9_OneReplyPerAuthorPerDay ==
  \A a \in Authors :
    prevPost[a] # -1 => lastPost[a] - prevPost[a] >= TicksPerDay

\* C10: a handled POST has got exactly one response, with status 200, and a
\* request being handled has got none yet.
C10_OneSuccessResponse ==
  \A r \in Reqs :
    /\ req[r].pc = "done" => req[r].responses = 1 /\ req[r].status = 200
    /\ req[r].pc \notin {"done"} => req[r].responses = 0

\* C10 witness: the only delivery so far was answered after its reply was
\* posted and its insert was rejected (no row for the author).
C10_Witness ==
  \E r \in Reqs :
    /\ deliveries = 1
    /\ req[r].pc = "done"
    /\ req[r].responses = 1
    /\ req[r].status = 200
    /\ req[r].user \in Authors
    /\ lastPost[req[r].user] # -1
    /\ dbRows = {}

\* C11: a mention whose post failed is, sooner or later, processed again by a
\* poll invocation (it is fetched again and a reply to it is attempted again).
C11_FailedPostRetried ==
  \A m \in MentionIds : (m \in awaitingRetry) ~> (m \notin awaitingRetry)

\* C12: one invocation of the /tmp-tracking poller's poll posts at most one reply.
C12_TmpOneReplyPerCycle ==
  \A p \in TmpPolls : tmpCyclePosts[p] <= 1

\* Replies the platform holds to the mentions 1..n of the /tmp-tracking
\* poller whose pair is k.
RECURSIVE TmpPairRepliesUpTo(_, _)
TmpPairRepliesUpTo(k, n) ==
  IF n = 0 THEN 0
  ELSE (IF TmpTrackingKey(n) = k THEN tmpReplies[n] ELSE 0) + TmpPairRepliesUpTo(k, n - 1)

\* C13: /tmp-tracking poller: for every (conversation, author) pair the number
\* of replies posted never exceeds 3.
C13_TmpPairCapHolds ==
  \A k \in TmpKeys : TmpPairRepliesUpTo(k, Len(tmpMentions)) <= MaxRepliesPerPair

\* The mentions table holds a row of userId inserted less than 24 hours before now.
RepliedWithinDay(rows, userId, now) ==
  \E row \in rows : row[1] = userId /\ row[2] > now - TicksPerDay /\ row[2] <= now

\* C14: hasRecentReply(userId) resolves true exactly when the table holds a
\* row of userId whose timestamp lies within the 24 hours before the call.
C14_RecentExactlyWithinDay ==
  \A userId \in Authors :
    HasRecentReply(dbRows, userId, wNow) <=> RepliedWithinDay(dbRows, userId, wNow)

\* C15: shouldReplyTo returns true exactly when the author is verified, the
\* text contains '@graisonbot' in any case, the text does not start with
\* 'RT @', and the mention is not a reply to an account other than graisonbot;
\* the first failing check decides (a later check cannot turn the result).
C15_ShouldReplyToExactly ==
  output # <<>> =>
    output[1] = (/\ input.verified
                 /\ \E i \in 1..Len(input.text) :
                       input.text[i] \in {"@graisonbot", "@GRAISONBOT"}
                 /\ ~(Len(input.text) > 0 /\ input.text[1] = "RT @")
                 /\ input.inReplyTo \in {"none", "graisonbot"})

\* C15 witness: a verified author's text that names the bot in capitals after
\* a lower-case 'rt @' was accepted.
C15_Witness ==
  /\ output = <<TRUE>>
  /\ input.text = <<"rt @", "@GRAISONBOT">>
  /\ input.inReplyTo = "graisonbot"

\* C16: every reply text handed to the publisher by the research poller and
\* by the strict poller is at most 240 characters long.
C16_ReplyAtMost240 ==
  output # <<>> /\ output[1].posted => Length(output[1].text) <= 240

\* C16 witness: a poller handed over a text of exactly 240 characters made
\* from a longer answer without a space after index 200.
C16_Witness ==
  /\ output # <<>>
  /\ output[1].posted
  /\ Length(input.text) > 240
  /\ LastIndexOf(Substring(input.text, 240), " ") <= 200
  /\ Length(output[1].text) = 240

\* The character of text t at index k (from 0), "" past its end.
RECURSIVE CharAt(_, _)
CharAt(t, k) ==
  IF t = <<>> THEN ""
  ELSE IF k < Head(t).n THEN Head(t).c
  ELSE CharAt(Tail(t), k - Head(t).n)

\* The reply text out ends where a word of the generated text gen ends: the
\* next character of gen is a space or the punctuation that was dropped
\* (out may carry one appended full stop).
CutAtWordEnd(out, gen) ==
  \E k \in {Length(out), Length(out) - 1} :
    k >= 0 /\ CharAt(gen, k) \in {" ", "."}

EndsWithEllipsis(out) == out # <<>> /\ out[Len(out)].c = "." /\ out[Len(out)].n >= 3

\* C17: a generated text longer than 240 characters is handed over either cut
\* where a word ends or hard-cut with an appended ellipsis, in both pollers.
C17_TruncationLaw ==
  (output # <<>> /\ output[1].posted /\ Length(Trim(input.text)) > 240) =>
    \/ CutAtWordEnd(output[1].text, Trim(input.text))
    \/ EndsWithEllipsis(output[1].text)

\* C18: no text handed to the posting endpoint contains a question mark: the
\* research poller always posts, with every '?' replaced; the strict poller
\* skips the mention exactly when its text, truncated, contains a '?' or
\* another banned phrase.
C18_NoQuestionMarkSubmitted ==
  output # <<>> =>
    /\ output[1].posted => ~Includes(output[1].text, "?")
    /\ input.variant = "research" => output[1].posted
    /\ input.variant = "strict" =>
         (~output[1].posted <=>
            \E i \in 1..Len(BadPatterns) :
              IncludesPattern(StrictTruncated(Trim(input.text)), BadPatterns[i]))

\* C18 witness: the research poller was handed a text with a question mark
\* that is not its last character, and posted a text.
C18_Witness ==
  /\ output # <<>> /\ output[1].posted
  /\ input.variant = "research"
  /\ Includes(input.text, "?")
  /\ input.text[Len(input.text)].c = "a"


\* The characters of a text of runs, one by one.
RECURSIVE Characters(_)
Characters(t) ==
  IF t = <<>> THEN <<>>
  ELSE [i \in 1..Head(t).n |-> Head(t).c] \o Characters(Tail(t))

\* The test of polling.js:800 on runs finds a pattern exactly when the
\* pattern occurs in the lower-cased characters of the truncated text.
PatternFoundInCharacters ==
  (output # <<>> /\ input.variant = "strict") =>
    \A i \in 1..Len(BadPatterns) :
      IncludesPattern(output[1].text, BadPatterns[i])
        <=> IncludesText(LowerCase(Characters(output[1].text)), BadPatterns[i])

\* The strict poller was handed a text without question mark that holds a
\* banned phrase with a capital letter, and skipped the mention.
StrictPhraseRejected ==
  /\ output # <<>> /\ ~output[1].posted
  /\ input.variant = "strict"
  /\ ~Includes(input.text, "?")
  /\ \E i \in 1..Len(input.text) : input.text[i].c = "W"

\* The strict poller was handed a text whose banned phrase the truncation cut
\* off, and posted the rest.
StrictPhraseCutOff ==
  /\ output # <<>> /\ output[1].posted
  /\ input.variant = "strict"
  /\ StrictRejected(input.text)
\* C19: whatever the generator answers, the research poller hands a non-empty
\* text to the posting endpoint; when the answer holds no text, or only
\* spaces, that text is the fallback selected by the context alone.
C19_EmptyAnswerGetsFallback ==
  output # <<>> =>
    /\ output[1].posted
    /\ Length(output[1].text) > 0
    /\ (\A i \in 1..Len(AnswerText(input.answer)) :
          AnswerText(input.answer)[i].c = " ")
         => output[1].text =
              ResearchStatement(ResearchTruncated(FallbackReply(input.context)))

\* C19 witness: the generator answered with spaces only and a text was
\* handed to the posting endpoint.
C19_Witness ==
  /\ output # <<>> /\ output[1].posted
  /\ input.answer.content
  /\ Len(input.answer.text) > 0
  /\ \A i \in 1..Len(input.answer.text) : input.answer.text[i].c = " "

\* C20: for the first mention of a pair, whatever the tweet lookup, the thread
\* origin, the context building and the ticker research do, the generator is
\* called, with the raw mention text as conversation summary whenever the
\* context was not built.
C20_GeneratorAlwaysCalled ==
  (output # <<>> /\ ~input.remembered) =>
    /\ output[1].generatorCalled
    /\ (\/ input.tweetDetail # "found"
        \/ input.threadData = "null"
        \/ input.build = "rejects")
         => output[1].conversationSummary = "mentionText"

\* C20 witness: the tweet lookup rejected and the ticker stage threw for the
\* first mention of a pair, and the generator was called.
C20_Witness ==
  /\ output # <<>> /\ output[1].generatorCalled
  /\ ~input.remembered
  /\ input.tweetDetail = "rejects"
  /\ input.tickers = "throws"

\* C21: buildContextKnowledge always returns, and its research list holds, in
\* topic order, exactly the researched topics whose lookup returned data.
C21_ResearchListExact ==
  output # <<>> =>
    LET research == output[1].research
    IN /\ output[1].returned
       /\ \A i \in 1..(Len(research) - 1) : research[i] < research[i + 1]
       /\ {research[i] : i \in 1..Len(research)}
            = {t \in 1..Len(input.lookup) : input.lookup[t] = "data"}

\* C21 witness: a lookup threw, a later one returned data, and the call
\* returned a research list.
C21_Witness ==
  /\ output # <<>> /\ output[1].returned
  /\ \E i, j \in 1..Len(input.lookup) :
       /\ i < j
       /\ input.lookup[i] = "throws"
       /\ input.lookup[j] = "data"
       /\ \E n \in 1..Len(output[1].research) : output[1].research[n] = j

\* C22: a poll invocation sends a fetch (v2Client.me) only when 60 seconds
\* have elapsed since the last rate-limit error of the fetch stage.
C22_NoFetchWithinCooldown ==
  [][\A p \in Polls :
       (poll[p].pc = "idle" /\ poll'[p].pc = "me") => errorAge # "lt"]_vars

\* C23: no exception leaves poll, pollForMentions or handleMention: no
\* invocation ends by an exception that no catch received, and the timer of a
\* poller is armed once its first invocation is over.
C23_NoExceptionEscapes ==
  /\ \A p \in Polls : poll[p].pc # "escaped"
  /\ \A p \in DbPolls : dbPoll[p].pc # "escaped"
  /\ \A h \in StreamSlots : streamHandler[h].pc # "escaped"
  /\ (limits.polls # {} /\ \A p \in Polls : ~poll[p].initial) => timerArmed
  /\ ("dbPoller" \in running /\ \A p \in DbPolls : ~dbPoll[p].initial) => dbTimer

\* C23 witness: addReply rejected after the DB poller posted a reply, and the
\* invocation is over with the timer armed.
C23_Witness ==
  /\ "dbPoller" \in running
  /\ dbReplyCount > 0
  /\ lastProcessedTweetId = 0
  /\ \A p \in DbPolls : dbPoll[p].pc = "idle"
  /\ dbTimer

\* C24: the stream handler never posts more than 20 replies (replyCount is
\* the number of replies posted since the process started).
C24_AtMostTwentyReplies == streamReplyCount <= DailyLimit

\* C25: the skip tests of the research poller decide from the mention,
\* repliedMentions and replyTracking alone: for every mention of the batch of
\* an invocation, tested already or not, they decide now as they do at the
\* start of a cycle; and repliedMentions and replyTracking change only in the
\* step that records a posted reply.
C25_EligibilityRepeatable ==
  /\ [](\A p \in Polls : \A j \in 1..Len(poll[p].batch) :
          Skipped(repliedMentions, replyTracking, poll[p].mentionsSeen,
                  poll[p].batch[j])
            = Skipped(repliedMentions, replyTracking, {}, poll[p].batch[j]))
  /\ [][(repliedMentions' # repliedMentions \/ replyTracking' # replyTracking)
          => \E m \in MentionIds : replies'[m] = replies[m] + 1]_vars

\* The candidates of a thread: its handles and its capitalized phrases of
\* more than 3 characters, with their mention counts.
Candidates(thread) ==
  {[name |-> <<"@", i>>, mentions |-> thread.handles[i]] :
     i \in 1..Len(thread.handles)}
  \cup {[name |-> <<"T", k>>, mentions |-> thread.terms[k].mentions] :
          k \in {n \in 1..Len(thread.terms) : thread.terms[n].long}}

\* C26: identifyTopics returns at most 10 topics, each name once, and no
\* candidate it leaves out has more mentions than a topic it returns.
C26_TopTopicsByMentions ==
  output # <<>> =>
    LET topics == output[1]
        names == {topics[i].name : i \in 1..Len(topics)}
    IN /\ Len(topics) <= TopicCap
       /\ \A i, j \in 1..Len(topics) : topics[i].name = topics[j].name => i = j
       /\ \A c \in Candidates(input) : \A i \in 1..Len(topics) :
            c.name \notin names => c.mentions <= topics[i].mentions

\* C27: when the search returned at least one tweet, findThreadOrigin returns
\* the same tweets ordered by created_at ascending as allTweets, a tweet of
\* minimal created_at as root and the number of tweets as threadLength; when
\* the search returned no tweet or threw, it returns null.
C27_ThreadOriginSorted ==
  output # <<>> =>
    LET result == output[1]
        data == input.data
    IN IF input.kind = "tweets" /\ Len(data) >= 1
       THEN /\ result # <<>>
            /\ LET all == result[1].allTweets
               IN /\ Len(all) = Len(data)
                  /\ {all[i] : i \in 1..Len(all)}
                       = {data[i] : i \in 1..Len(data)}
                  /\ \A i \in 1..(Len(all) - 1) :
                       all[i].created_at <= all[i + 1].created_at
                  /\ \E i \in 1..Len(data) : result[1].root = data[i]
                  /\ \A i \in 1..Len(data) :
                       result[1].root.created_at <= data[i].created_at
                  /\ result[1].threadLength = Len(data)
       ELSE result = <<>>

\* C27 witness: the search returned tweets that were not in the order of
\* created_at, among them two of the same instant, and the call returned.
C27_Witness ==
  /\ output # <<>>
  /\ input.kind = "tweets"
  /\ \E i, j \in 1..Len(input.data) :
       i < j /\ input.data[i].created_at > input.data[j].created_at
  /\ \E i, j \in 1..Len(input.data) :
       i < j /\ input.data[i].created_at = input.data[j].created_at
  /\ output[1] # <<>>

\* C28: a mention that a poll invocation fetched and left unprocessed, still
\* eligible, when the one-reply-per-cycle limit ended its loop, is sooner or
\* later in the batch of a poll invocation again or has received a reply.
C28_LeftMentionConsideredAgain ==
  \A m \in MentionIds :
    (\E p \in Polls : m \in cycleLeft[p])
      ~> (\/ replies[m] > 0
          \/ \E p \in Polls :
               /\ poll[p].pc # "idle"
               /\ \E j \in 1..Len(poll[p].batch) : poll[p].batch[j] = m)

\* C29: a mention that passed the eligibility tests while its pair had 1 or
\* 2 replies is handed to the generator when its research stage ends (so
\* that, generation and publish succeeding, the pair gets its next reply).
C29_PairRepliedUpToCap ==
  [][\A p \in Polls :
       (/\ poll[p].pc = "research"
        /\ replyTracking[TrackingKey(Current(poll[p]))] \in 1..(MaxRepliesPerPair - 1)
        /\ Current(poll[p]) \notin repliedMentions
        /\ poll'[p] # poll[p])
       => /\ poll'[p].pc = "generate"
          /\ Current(poll'[p]) = Current(poll[p])]_vars

\* C30: a mention of a pair that has a memory entry, made within 5 minutes of
\* the last reply with a text whose first 100 characters differ from the last
\* mention's, is treated as a follow-up and generated with the previous reply
\* as context; a mention of a pair without entry is treated as fresh.
C30_FollowUpDetected ==
  output # <<>> =>
    /\ (input.present /\ input.elapsed < FollowUpWindow
          /\ input.differsAt \in 1..TextPrefix)
         => output[1] = [kind |-> "followUp", context |-> input.reply_count]
    /\ ~input.present => output[1] = [kind |-> "fresh", context |-> 0]

\* C31: in the first research poller, when the conversation fetch or
\* buildContextKnowledge failed and the fallback context is used, the text
\* generator is still called, and a reply is posted when the generator
\* answers with a statement and the publisher accepts it.
C31_FallbackStillGenerates ==
  (output # <<>> /\ output[1].fallbackUsed) =>
    /\ output[1].conversationSummary = "mentionText"
    /\ output[1].generatorCalled
    /\ (input.generate = "statement" /\ input.post = "posted")
         => output[1].posted

\* Replies to mentions of pair k that the platform accepted and that the
\* tracking file does not count: the process died before polling.js:463-478.
Unrecorded(k) == PairReplies(k) - fileTracking[k]

\* The process dies after a post once: no earlier reply is unrecorded.
CrashOnce(p) ==
  /\ \A k \in Keys : Unrecorded(k) = 0
  /\ CrashAfterPost(p)

NextCrash ==
  \/ Next
  \/ Restart
  \/ \E p \in Polls : CrashOnce(p)

\* Polls that do not overlap, restarts at any moment and one death of the
\* process between a post and its bookkeeping.
SpecCrash == InitCrash /\ [][NextCrash]_vars

\* At most one reply was posted without being recorded.
AtMostOneCrashAfterPost ==
  /\ \A k \in Keys : Unrecorded(k) <= 1
  /\ Cardinality({k \in Keys : Unrecorded(k) > 0}) <= 1

\* C32: when the process died once between the post of a reply and the
\* writing of the tracking files, no mention has more than two replies (the
\* reply and one duplicate) and no pair has more than 3 replies.
C32_CrashCostsOneDuplicate ==
  AtMostOneCrashAfterPost =>
    /\ \A m \in 1..Len(mentions) : replies[m] <= 2
    /\ \A k \in Keys : PairReplies(k) <= MaxRepliesPerPair

\* C32 witness: the process died after the post of a reply, was started again
\* and posted a second reply to the same mention, which is now recorded.
C32_Witness ==
  /\ AtMostOneCrashAfterPost
  /\ \E m \in 1..Len(mentions) :
       /\ replies[m] = 2
       /\ m \in fileMentions
       /\ Unrecorded(TrackingKey(m)) = 1

\* C33: when addReply returns to pollForMentions after a posted reply, with
\* or without an error, the invocation goes on as after a stored reply: the
\* loop continues with the next tweet of the batch and, when the loop is
\* over, lastProcessedTweetId becomes the newest id of the batch.
C33_InsertFailureContinues ==
  [][\A p \in DbPolls :
       (dbPoll[p].pc = "insert" /\ dbPoll'[p] # dbPoll[p])
       => LET next == DbLoopFrom(dbPoll[p], dbPoll[p].i + 1)
          IN /\ next.pc = "dedup" => dbPoll'[p] = next
             /\ next.pc = "done" =>
                  /\ dbPoll'[p] = DbIdlePoll
                  /\ lastProcessedTweetId' = dbPoll[p].batch[1]]_vars

\* C34: the limit of 20 replies is a daily one: when replyCount has reached
\* 20 at instant t, a handler submits a reply again at an instant that is at
\* least one day later (the process running all the time).
C34_LimitIsDaily ==
  \A t \in 0..(MaxTime - TicksPerDay) :
    (streamReplyCount >= DailyLimit /\ wNow = t)
      ~> (/\ wNow >= t + TicksPerDay
          /\ \E h \in StreamSlots : streamHandler[h].pc = "post")

\* C35: a reconnect is scheduled only while reconnectAttempts < 5 and counts
\* as one more attempt, so that after 5 reconnects scheduled without a
\* successful connection no further one is scheduled; a successful connection
\* resets reconnectAttempts to 0.
C35_ReconnectsBounded ==
  /\ [](reconnectAttempts <= MaxReconnectAttempts)
  /\ [][/\ reconnectTimers' > reconnectTimers
             => /\ reconnectAttempts < MaxReconnectAttempts
                /\ reconnectAttempts' = reconnectAttempts + 1
        /\ reconnectAttempts = MaxReconnectAttempts
             => reconnectTimers' <= reconnectTimers
        /\ liveStreams' > liveStreams => reconnectAttempts' = 0]_vars

\* C35 witness: five reconnects were scheduled without a successful
\* connection, the last attempt failed and nothing is scheduled any more.
C35_Witness ==
  /\ reconnectAttempts = MaxReconnectAttempts
  /\ reconnectTimers = 0 /\ connecting = 0
  /\ liveStreams = 0 /\ endingStreams = 0

\* C36: at most one stream connection is open, being opened or scheduled to
\* be opened at any time.
C36_OneConnection ==
  liveStreams + connecting + reconnectTimers <= 1

\* C37: the backoff is not permanent: it ends, and once more than 60 seconds
\* have passed since the last rate-limit error the next poll invocation sets
\* errorCount to 0 and sends a fetch.
C37_BackoffEnds ==
  /\ BackingOff ~> ~BackingOff
  /\ (/\ errorCount > 0 /\ errorAge = "gt" /\ timerArmed
      /\ \A p \in Polls : poll[p].pc = "idle")
       ~> (errorCount = 0 /\ \E p \in Polls : poll[p].pc = "me")

\* C37 witness: more than 3 rate-limit errors were counted, more than 60
\* seconds have passed since the last one, and the timer is about to tick.
C37_Witness ==
  /\ errorCount > BackoffAfterErrors
  /\ errorAge = "gt"
  /\ timerArmed
  /\ \A p \in Polls : poll[p].pc = "idle"

\* C38: when the topic list holds at least one project, buildContextKnowledge
\* has made a research lookup for every project of the list when it returns.
C38_EveryProjectResearched ==
  (output # <<>> /\ input.topics.projects > 0) =>
    /\ output[1].returned
    /\ \A t \in 1..output[1].projects : t \in DOMAIN input.lookup


\* C39: every keyword of analyzeThreadEvolution can decide the label of its
\* own group: for each keyword there is a root text that contains it and whose
\* coreMessage, as analyzeThreadEvolution returns it, is the label of the
\* keyword's group (stated of the function wherever it has returned).
C39_EveryKeywordDecides ==
  output # <<>> =>
    \A k \in Keywords :
      \E text \in RootTexts :
        /\ IncludesText(LowerCase(text), k)
        /\ AnalyzeThreadEvolution(<<[root |-> text]>>)[1].coreMessage = GroupLabel(k)

\* The keywords that decide the label of their group for some root text.
DecidingKeywords ==
  {k \in Keywords :
     \E text \in RootTexts :
       /\ IncludesText(LowerCase(text), k)
       /\ CoreMessage(text) = GroupLabel(k)}

\* A root text that holds 'partnership' holds 'ship', a keyword of an earlier
\* group: its coreMessage is never the partnership label.
PartnershipNeverDecides ==
  (output # <<>> /\ input # <<>> /\
   IncludesText(LowerCase(input[1].root),
                <<"p","a","r","t","n","e","r","s","h","i","p">>)) =>
    output[1][1].coreMessage \in
      {KeywordGroups[1].label, KeywordGroups[2].label}

\* Every keyword but 'partnership' decides the label of its group.
OtherKeywordsDecide ==
  DecidingKeywords = Keywords \ {<<"p","a","r","t","n","e","r","s","h","i","p">>}

====
